---- MODULE Spec2Model ----
(***************************************************************************)
(* Model of the modification-order cycle graph (src/cyclegraph.cc):        *)
(* CycleNode / CycleGraph with promise nodes, RMW edges, merge, and the    *)
(* commit / rollback undo log.                                             *)
(***************************************************************************)
EXTENDS Integers, Sequences, FiniteSets, TLC

\* ------------------------------------------------------------------ bounds
NumActions == 3         \* write / RMW ModelActions that may get a node
NumPromises == 2        \* Promises (each identified by its reader action)
MaxOps == 3             \* graph-mutating public calls in one behaviour
MaxOpsEdges == 4        \* the same, in behaviours without resolvePromise
NumPromisesEdges == 0   \* Promises in behaviours without resolvePromise
NumActionsMerge == 1    \* ModelActions in behaviours about promise merging
NumPromisesMerge == 3   \* Promises in such a behaviour
MaxOpsMerge == 3        \* graph-mutating calls in such a behaviour
NumThreads == 2         \* threads that run the ModelActions
NumPromisesCheck == 1   \* Promises in behaviours with checkPromise
MaxOpsCheck == 3        \* graph-mutating calls in such a behaviour
NumPositions == 4       \* source positions: reads, the third one a write
NumLocs == 3            \* memory locations
NumPositionsFunc == 3   \* source positions of the calls one after the other
NumLocsFunc == 2        \* memory locations of these calls
NumValues == 2          \* values read: 0 (NULL) and 1
MaxCalls == 2           \* calls of the function in one behaviour
MaxActs == 2            \* atomic actions inside one call
MaxNewExecs == 1        \* executions that start after the first one
MaxCallsGen == 1        \* calls in a behaviour with more reads in a call
MaxActsGen == 3         \* atomic actions inside such a call
MaxCallsThreads == 3    \* calls in a behaviour with threads and nesting
MaxActsThreads == 1     \* atomic actions after an entry in such a behaviour
MaxDepth == 2           \* calls of the function open in one thread
MaxTreeIters == 5       \* iterations of the retry loop of update_predicate_tree
NumPositionsThreads == 2 \* source positions in such a behaviour
MaxExecutions == 3      \* largest maxexecutions of the model_params
MaxVerbose == 3         \* largest verbose of the model_params
MaxSteps == 2           \* steps the user program takes in one execution
MaxBugs == 2            \* bug reports asserted inside one execution
MaxUserThreads == 3     \* user threads of an execution of the run loop
MaxExecutionsSched == 2 \* maxexecutions of a run with user threads
VALUE_NONE == -1

NULL == 0
Actions == 1..NumActions
Readers == 1..NumPromisesMerge
MaxNodes == NumActions + NumPromisesMerge
NodeIds == 1..MaxNodes
Threads == 1..NumThreads

\* An endpoint handed to the public addEdge: a ModelAction or a Promise.
ActRef(a) == [kind |-> "act", id |-> a]
PromRef(p) == [kind |-> "prom", id |-> p]
Refs == {ActRef(a) : a \in Actions} \cup {PromRef(p) : p \in Readers}

\* --------------------------------------------------------------- variables
VARIABLES
  live,                 \* CycleNodes constructed and not deleted
  freed,                \* CycleNodes deleted (storage not yet reused)
  action,               \* CycleNode::action
  promise,              \* CycleNode::promise  (the promise's reader)
  edges,                \* CycleNode::edges
  back_edges,           \* CycleNode::back_edges
  hasRMW,               \* CycleNode::hasRMW
  actionToNode,         \* CycleGraph::actionToNode
  readerToPromiseNode,  \* CycleGraph::readerToPromiseNode
  hasCycles,            \* CycleGraph::hasCycles
  oldCycles,            \* CycleGraph::oldCycles
  rollbackvector,       \* CycleGraph::rollbackvector
  rmwrollbackvector,    \* CycleGraph::rmwrollbackvector
  mustMerge,            \* the caller's promise_list_t of the last resolve
  merging,              \* p_nodes of the mergeNodes calls of the last resolve
  decisions,            \* back-edge decisions of mergeNodes in the last resolve
  uaf,                  \* a deleted CycleNode was used: behaviour undefined
  last,                 \* the last public call: name, arguments, result
  prev,                 \* graph just before the last public call
  snap,                 \* graph at the last startChanges
  inTxn,                \* a startChanges is open (no commit/rollback yet)
  txnMerged,            \* resolvePromise was called in the open transaction
  npromises,            \* number of Promises that got a node so far
  maxactions,           \* number of ModelActions the behaviour may involve
  maxpromises,          \* number of Promises the behaviour may involve
  nops,                 \* number of graph-mutating calls still to come
  available,            \* Promise::available_thread, per promise
  visited,              \* nodes the last checkPromise took off its queue
  fn,                   \* the FuncNode: instructions and predicate tree
  fbudget,              \* calls and actions of the function still to come
  flast,                \* the last call of a handler of the FuncNode
  mc                    \* the ModelChecker and what it sees of the execution

gvars == <<live, freed, action, promise, edges, back_edges, hasRMW,
           actionToNode, readerToPromiseNode, hasCycles, oldCycles,
           rollbackvector, rmwrollbackvector, mustMerge, merging,
           decisions, uaf>>
vars == <<live, freed, action, promise, edges, back_edges, hasRMW,
          actionToNode, readerToPromiseNode, hasCycles, oldCycles,
          rollbackvector, rmwrollbackvector, mustMerge, merging,
          decisions, uaf, last, prev, snap, inTxn, txnMerged, npromises,
          maxactions, maxpromises, nops, available, visited, fn,
          fbudget, flast, mc>>
pvars == <<available, visited, fn, fbudget, flast, mc>>
cvars == <<live, freed, action, promise, edges, back_edges, hasRMW,
           actionToNode, readerToPromiseNode, hasCycles, oldCycles,
           rollbackvector, rmwrollbackvector, mustMerge, merging,
           decisions, uaf, last, prev, snap, inTxn, txnMerged, npromises,
           maxactions, maxpromises, nops, available, visited>>

\* The CycleGraph object and its nodes as one value; the operations below
\* are state transformers on it.  ret is the return value of the call.
Cur ==
  [live |-> live, freed |-> freed, action |-> action, promise |-> promise,
   edges |-> edges, back_edges |-> back_edges, hasRMW |-> hasRMW,
   actionToNode |-> actionToNode,
   readerToPromiseNode |-> readerToPromiseNode,
   hasCycles |-> hasCycles, oldCycles |-> oldCycles,
   rollbackvector |-> rollbackvector,
   rmwrollbackvector |-> rmwrollbackvector,
   mustMerge |-> mustMerge, merging |-> merging, decisions |-> decisions,
   uaf |-> uaf, ret |-> TRUE]

SetGraph(s) ==
  /\ live' = s.live
  /\ freed' = s.freed
  /\ action' = s.action
  /\ promise' = s.promise
  /\ edges' = s.edges
  /\ back_edges' = s.back_edges
  /\ hasRMW' = s.hasRMW
  /\ actionToNode' = s.actionToNode
  /\ readerToPromiseNode' = s.readerToPromiseNode
  /\ hasCycles' = s.hasCycles
  /\ oldCycles' = s.oldCycles
  /\ rollbackvector' = s.rollbackvector
  /\ rmwrollbackvector' = s.rmwrollbackvector
  /\ mustMerge' = s.mustMerge
  /\ merging' = s.merging
  /\ decisions' = s.decisions
  /\ uaf' = s.uaf

\* ---------------------------------------------------------- vector helpers
InSeq(x, v) == \E i \in 1..Len(v) : v[i] = x
Front(v) == SubSeq(v, 1, Len(v) - 1)
Back(v) == v[Len(v)]

\* vector_remove_node: erase the first element equal to n
RECURSIVE vector_remove_node(_, _)
vector_remove_node(v, n) ==
  IF v = <<>> THEN <<>>
  ELSE IF Head(v) = n THEN Tail(v)
  ELSE <<Head(v)>> \o vector_remove_node(Tail(v), n)

\* -------------------------------------------------------------- CycleNode
is_promise(s, n) == s.promise[n] # NULL

\* Promise::is_compatible(act): can write act satisfy the promise of
\* reader r.  A fixed relation: the promise of reader 2 cannot be satisfied
\* by action 2 (wrong value / thread no longer available).
is_compatible(r, a) == ~(r = 2 /\ a = 2)

\* new CycleNode(act) / new CycleNode(promise) at address n
CycleNode_new(s, n, act, prom) ==
  [s EXCEPT !.live = @ \cup {n},
            !.freed = @ \ {n},
            !.action[n] = act,
            !.promise[n] = prom,
            !.edges[n] = <<>>,
            !.back_edges[n] = <<>>,
            !.hasRMW[n] = NULL]

\* delete p_node: the storage keeps its last contents until it is reused
CycleNode_delete(s, n) ==
  [s EXCEPT !.live = @ \ {n}, !.freed = @ \cup {n}]

\* addEdge that forgets the back edge of the target
CycleNode_addEdge_noBack(s, n, m) ==
  IF InSeq(m, s.edges[n]) THEN [s EXCEPT !.ret = FALSE]
  ELSE [s EXCEPT !.edges[n] = Append(@, m), !.ret = TRUE]

\* CycleNode::addEdge: ret = TRUE iff the edge is new
CycleNode_addEdge(s, n, m) ==
  IF InSeq(m, s.edges[n]) THEN [s EXCEPT !.ret = FALSE]
  ELSE LET s1 == [s EXCEPT !.edges[n] = Append(@, m)]
       IN  [s1 EXCEPT !.back_edges[m] = Append(@, n), !.ret = TRUE]

\* CycleNode::removeEdge: pop the last forward edge and its back record
removeEdge(s, n) ==
  IF s.edges[n] = <<>> THEN s
  ELSE LET t == Back(s.edges[n])
           s1 == [s EXCEPT !.edges[n] = Front(@)]
       IN  [s1 EXCEPT !.back_edges[t] = vector_remove_node(@, n)]

\* CycleNode::removeBackEdge: pop the last back edge and its forward record
removeBackEdge(s, n) ==
  IF s.back_edges[n] = <<>> THEN s
  ELSE LET b == Back(s.back_edges[n])
           s1 == [s EXCEPT !.back_edges[n] = Front(@)]
       IN  [s1 EXCEPT !.edges[b] = vector_remove_node(@, n)]

\* CycleNode::popEdge (rollback): drops the last forward edge of n,
\* keeping the back-edge list of the target in sync
popEdge(s, n) ==
  IF s.edges[n] = <<>> THEN s
  ELSE LET t == Back(s.edges[n])
           s1 == [s EXCEPT !.edges[n] = Front(@)]
       IN  [s1 EXCEPT !.back_edges[t] = vector_remove_node(@, n)]

\* CycleNode::clearRMW (rollback)
clearRMW(s, n) == [s EXCEPT !.hasRMW[n] = NULL]

\* setRMW that lets a second RMW replace the first
setRMW_overwrite(s, n, m) ==
  [s EXCEPT !.hasRMW[n] = m, !.ret = s.hasRMW[n] # NULL]

\* CycleNode::setRMW: ret = TRUE iff n was already read by another RMW
setRMW(s, n, m) ==
  IF s.hasRMW[n] # NULL THEN [s EXCEPT !.ret = TRUE]
  ELSE [s EXCEPT !.hasRMW[n] = m, !.ret = FALSE]

\* CycleNode::resolvePromise(writer)
CycleNode_resolvePromise(s, n, writer) ==
  [s EXCEPT !.action[n] = writer, !.promise[n] = NULL]

\* -------------------------------------------------------------- CycleGraph
\* Storage handed out by `new`: the preferred freed block r when there is
\* one, else the lowest address never used, else some freed block.
Unused(s) == NodeIds \ (s.live \cup s.freed)
Min(S) == CHOOSE x \in S : \A y \in S : x <= y
Alloc(s, r) ==
  IF r \in s.freed THEN r
  ELSE IF Unused(s) # {} THEN Min(Unused(s))
  ELSE Min(s.freed)
HasNode(s, x) ==
  IF x.kind = "act" THEN s.actionToNode[x.id] # NULL
  ELSE s.readerToPromiseNode[x.id] # NULL
\* enough storage is left for the nodes a call on endpoints xs creates
CanAlloc(s, xs) ==
  Cardinality(NodeIds \ s.live) >= Cardinality({x \in xs : ~HasNode(s, x)})

\* CycleGraph::getNode(const ModelAction *): look up or create
getNode_ret(s, a, r) ==
  IF s.actionToNode[a] # NULL THEN s.actionToNode[a] ELSE Alloc(s, r)

getNode(s, a, r) ==
  IF s.actionToNode[a] # NULL THEN s
  ELSE LET n == Alloc(s, r)
           s1 == CycleNode_new(s, n, a, NULL)
       IN  [s1 EXCEPT !.actionToNode[a] = n]

\* CycleGraph::getNode(const Promise *): look up or create
getPromiseNode_ret(s, p, r) ==
  IF s.readerToPromiseNode[p] # NULL THEN s.readerToPromiseNode[p]
  ELSE Alloc(s, r)

getPromiseNode(s, p, r) ==
  IF s.readerToPromiseNode[p] # NULL THEN s
  ELSE LET n == Alloc(s, r)
           s1 == CycleNode_new(s, n, NULL, p)
       IN  [s1 EXCEPT !.readerToPromiseNode[p] = n]

\* Nodes reachable from the nodes of S by zero or more forward or
\* rmw_successor edges
RECURSIVE ClosureOf(_, _)
ClosureOf(s, S) ==
  LET T == S \cup UNION {{s.edges[n][i] : i \in 1..Len(s.edges[n])}
                           \cup ({s.hasRMW[n]} \ {NULL}) : n \in S}
  IN  IF T = S THEN S ELSE ClosureOf(s, T)

\* CycleGraph::checkReachable: worklist search along forward edges.
\* queue is used as a stack (back / pop_back); discovered is the scratch set.
RECURSIVE PushUndiscovered(_, _, _, _)
PushUndiscovered(es, i, queue, discovered) ==
  IF i > Len(es) THEN [queue |-> queue, discovered |-> discovered]
  ELSE IF es[i] \in discovered
       THEN PushUndiscovered(es, i + 1, queue, discovered)
       ELSE PushUndiscovered(es, i + 1, Append(queue, es[i]),
                             discovered \cup {es[i]})

RECURSIVE ReachLoop(_, _, _, _)
ReachLoop(s, queue, discovered, to) ==
  IF queue = <<>> THEN FALSE
  ELSE LET node == Back(queue)
       IN  IF node = to THEN TRUE
           ELSE LET nx == PushUndiscovered(s.edges[node], 1, Front(queue),
                                           discovered)
                IN  ReachLoop(s, nx.queue, nx.discovered, to)

\* ModelAction::get_tid: the actions are spread over the threads in turn
get_tid(a) == ((a - 1) % NumThreads) + 1

\* Promise::eliminate_thread(tid) on the set avail of threads that can still
\* host the write: tid is struck out; the result tells whether the promise
\* is left without a thread
eliminate_thread(avail, tid) ==
  [available |-> avail \ {tid}, ret |-> avail \ {tid} = {}]

\* checkPromise that goes on to the end of the search after a failure
RECURSIVE CheckLoop_exhaustive(_, _, _, _, _, _)
CheckLoop_exhaustive(s, queue, discovered, avail, vis, failed) ==
  IF queue = <<>>
  THEN [ret |-> failed, available |-> avail, visited |-> vis]
  ELSE LET node == Back(queue)
           e == IF ~is_promise(s, node)
                THEN eliminate_thread(avail, get_tid(s.action[node]))
                ELSE [available |-> avail, ret |-> FALSE]
           nx == PushUndiscovered(s.edges[node], 1, Front(queue), discovered)
       IN  CheckLoop_exhaustive(s, nx.queue, nx.discovered, e.available,
                                Append(vis, node), failed \/ e.ret)

checkPromise_exhaustive(s, fromact, avail) ==
  LET from == s.actionToNode[fromact]
  IN  CheckLoop_exhaustive(s, <<from>>, {from}, avail, <<>>, FALSE)

\* CycleGraph::checkPromise(fromact, promise): worklist search along forward
\* edges from the node of fromact; avail is the promise's set of available
\* threads, vis the nodes taken off the queue so far
RECURSIVE CheckLoop(_, _, _, _, _)
CheckLoop(s, queue, discovered, avail, vis) ==
  IF queue = <<>>
  THEN [ret |-> FALSE, available |-> avail, visited |-> vis]
  ELSE LET node == Back(queue)
           e == IF ~is_promise(s, node)
                THEN eliminate_thread(avail, get_tid(s.action[node]))
                ELSE [available |-> avail, ret |-> FALSE]
       IN  IF e.ret
           THEN [ret |-> TRUE, available |-> e.available,
                 visited |-> Append(vis, node)]
           ELSE LET nx == PushUndiscovered(s.edges[node], 1, Front(queue),
                                           discovered)
                IN  CheckLoop(s, nx.queue, nx.discovered, e.available,
                              Append(vis, node))

checkPromise(s, fromact, avail) ==
  LET from == s.actionToNode[fromact]
  IN  CheckLoop(s, <<from>>, {from}, avail, <<>>)

\* a query that looks at the direct successors only
checkReachable_direct(s, from, to) == from = to \/ InSeq(to, s.edges[from])

checkReachable(s, from, to) == ReachLoop(s, <<from>>, {from}, to)

\* addNodeEdge that records every call for rollback, new edge or not
addNodeEdge_logAll(s, fromnode, tonode) ==
  LET s1 == IF ~s.hasCycles
            THEN [s EXCEPT !.hasCycles = checkReachable(s, tonode, fromnode)]
            ELSE s
      e1 == CycleNode_addEdge(s1, fromnode, tonode)
  IN  [e1 EXCEPT !.rollbackvector = Append(@, fromnode)]

\* addNodeEdge that refuses an edge that closes a cycle
addNodeEdge_refuse(s, fromnode, tonode) ==
  IF checkReachable(s, tonode, fromnode)
  THEN [s EXCEPT !.hasCycles = TRUE, !.ret = FALSE]
  ELSE LET e1 == CycleNode_addEdge(s, fromnode, tonode)
       IN  IF e1.ret
           THEN [e1 EXCEPT !.rollbackvector = Append(@, fromnode)]
           ELSE e1

\* CycleGraph::addNodeEdge
addNodeEdge(s, fromnode, tonode) ==
  LET s1 == IF ~s.hasCycles
            THEN [s EXCEPT !.hasCycles = checkReachable(s, tonode, fromnode)]
            ELSE s
      e1 == CycleNode_addEdge(s1, fromnode, tonode)
      added1 == e1.ret
      s2 == IF added1
            THEN [e1 EXCEPT !.rollbackvector = Append(@, fromnode)]
            ELSE e1
      rmwnode == s2.hasRMW[fromnode]
  IN  IF rmwnode # NULL /\ rmwnode # tonode
      THEN LET s3 == IF ~s2.hasCycles
                     THEN [s2 EXCEPT !.hasCycles =
                                        checkReachable(s2, tonode, rmwnode)]
                     ELSE s2
               e2 == CycleNode_addEdge(s3, rmwnode, tonode)
               added2 == e2.ret
               s4 == IF added2
                     THEN [e2 EXCEPT !.rollbackvector = Append(@, rmwnode)]
                     ELSE e2
           IN  [s4 EXCEPT !.ret = added1 \/ added2]
      ELSE [s2 EXCEPT !.ret = added1]

\* an edge-transfer loop that transfers nothing
TransferEdges_none(s, fromnode, rmwnode, i) == s

\* The edge-transfer loop of addRMWEdge (lines 233-239), from index i on
RECURSIVE TransferEdges(_, _, _, _)
TransferEdges(s, fromnode, rmwnode, i) ==
  IF i > Len(s.edges[fromnode]) THEN s
  ELSE LET tonode == s.edges[fromnode][i]
           e == CycleNode_addEdge(s, rmwnode, tonode)
           s1 == IF tonode # rmwnode
                 THEN IF e.ret
                      THEN [e EXCEPT !.rollbackvector = Append(@, rmwnode)]
                      ELSE e
                 ELSE s
       IN  TransferEdges(s1, fromnode, rmwnode, i + 1)

\* addRMWEdge that also raises the flag when the RMW is already the
\* rmw_successor of another node
addRMWEdge_oneWrite(s, from, rmw, r) ==
  LET s0 == getNode(s, from, r)
      fromnode == getNode_ret(s, from, r)
      s1 == getNode(s0, rmw, r)
      rmwnode == getNode_ret(s0, rmw, r)
      taken == \E n \in s1.live : n # fromnode /\ s1.hasRMW[n] = rmwnode
      r1 == setRMW(s1, fromnode, rmwnode)
      s2 == IF r1.ret
            THEN [r1 EXCEPT !.hasCycles = TRUE]
            ELSE [r1 EXCEPT !.rmwrollbackvector = Append(@, fromnode),
                            !.hasCycles = @ \/ taken]
      s3 == TransferEdges(s2, fromnode, rmwnode, 1)
  IN  addNodeEdge(s3, fromnode, rmwnode)

\* addRMWEdge that sets the rmw_successor and transfers the edges, without
\* the edge from the write to the RMW
addRMWEdge_noEdge(s, from, rmw, r) ==
  LET s0 == getNode(s, from, r)
      fromnode == getNode_ret(s, from, r)
      s1 == getNode(s0, rmw, r)
      rmwnode == getNode_ret(s0, rmw, r)
      r1 == setRMW(s1, fromnode, rmwnode)
      s2 == IF r1.ret
            THEN [r1 EXCEPT !.hasCycles = TRUE]
            ELSE [r1 EXCEPT !.rmwrollbackvector = Append(@, fromnode)]
  IN  TransferEdges(s2, fromnode, rmwnode, 1)

\* addRMWEdge that stops after raising the flag for a second RMW
addRMWEdge_rejectOnly(s, from, rmw, r) ==
  LET s0 == getNode(s, from, r)
      fromnode == getNode_ret(s, from, r)
      s1 == getNode(s0, rmw, r)
      rmwnode == getNode_ret(s0, rmw, r)
      r1 == setRMW(s1, fromnode, rmwnode)
  IN  IF r1.ret
      THEN [r1 EXCEPT !.hasCycles = TRUE]
      ELSE addNodeEdge(TransferEdges([r1 EXCEPT !.rmwrollbackvector =
                                                   Append(@, fromnode)],
                                     fromnode, rmwnode, 1),
                       fromnode, rmwnode)

\* addRMWEdge that accepts a second RMW silently
addRMWEdge_silent(s, from, rmw, r) ==
  LET s0 == getNode(s, from, r)
      fromnode == getNode_ret(s, from, r)
      s1 == getNode(s0, rmw, r)
      rmwnode == getNode_ret(s0, rmw, r)
      r1 == setRMW(s1, fromnode, rmwnode)
      s2 == IF r1.ret
            THEN r1
            ELSE [r1 EXCEPT !.rmwrollbackvector = Append(@, fromnode)]
      s3 == TransferEdges(s2, fromnode, rmwnode, 1)
  IN  addNodeEdge(s3, fromnode, rmwnode)

\* CycleGraph::addRMWEdge(from, rmw); r is the allocator's choice
addRMWEdge(s, from, rmw, r) ==
  LET s0 == getNode(s, from, r)
      fromnode == getNode_ret(s, from, r)
      s1 == getNode(s0, rmw, r)
      rmwnode == getNode_ret(s0, rmw, r)
      r1 == setRMW(s1, fromnode, rmwnode)
      s2 == IF r1.ret
            THEN [r1 EXCEPT !.hasCycles = TRUE]
            ELSE [r1 EXCEPT !.rmwrollbackvector = Append(@, fromnode)]
      s3 == TransferEdges(s2, fromnode, rmwnode, 1)
  IN  addNodeEdge(s3, fromnode, rmwnode)

\* CycleGraph::addEdge(from, to) for ModelAction / Promise endpoints
RefNode_ret(s, x, r) ==
  IF x.kind = "act" THEN getNode_ret(s, x.id, r)
  ELSE getPromiseNode_ret(s, x.id, r)

RefNode(s, x, r) ==
  IF x.kind = "act" THEN getNode(s, x.id, r) ELSE getPromiseNode(s, x.id, r)

addEdge(s, from, to, r) ==
  LET s0 == RefNode(s, from, r)
      fromnode == RefNode_ret(s, from, r)
      s1 == RefNode(s0, to, r)
      tonode == RefNode_ret(s0, to, r)
  IN  addNodeEdge(s1, fromnode, tonode)

\* CycleGraph::mergeNodes(w_node, p_node, mustMerge).  ret = FALSE in the
\* result of a loop means a nested merge returned false (early return).
RECURSIVE mergeNodes(_, _, _)
RECURSIVE MergeBackLoop(_, _, _)
RECURSIVE MergeForwardLoop(_, _, _)
RECURSIVE MergeBackStep(_, _, _)
RECURSIVE MergeForwardStep(_, _, _)

\* Record of the choice mergeNodes makes for a promise predecessor b of the
\* node it merges into w: whether it merges b too, and what each node could
\* reach along forward and rmw_successor edges when the choice was made.
Decided(s, w_node, back, recursed) ==
  [s EXCEPT !.decisions =
     Append(@, [b |-> back, w |-> w_node, recursed |-> recursed,
                wReachesB |-> back \in ClosureOf(s, {w_node}),
                bReachesW |-> w_node \in ClosureOf(s, {back})])]

\* A use of node n by the code that follows: undefined if n was deleted
UseNode(s, n) == [s EXCEPT !.uaf = @ \/ n \in s.freed]

\* back-edge loop that merges a promise predecessor when it reaches w_node
RECURSIVE MergeBackLoop_reversed(_, _, _)
MergeBackLoop_reversed(s, w_node, p_node) ==
  IF Len(s.back_edges[p_node]) = 0 THEN s
  ELSE LET back == Back(s.back_edges[p_node])
           s1 == removeBackEdge(s, p_node)
       IN  IF back = w_node THEN MergeBackLoop_reversed(s1, w_node, p_node)
           ELSE IF is_promise(s1, back)
           THEN IF checkReachable(s1, back, w_node)
                THEN LET s2 == mergeNodes(
                                 [Decided(s1, w_node, back, TRUE)
                                    EXCEPT !.mustMerge =
                                             Append(@, s1.promise[back])],
                                 w_node, back)
                     IN  IF ~s2.ret THEN s2
                         ELSE MergeBackLoop_reversed(s2, w_node, p_node)
                ELSE MergeBackLoop_reversed(
                       [CycleNode_addEdge(Decided(s1, w_node, back, FALSE),
                                          back, w_node) EXCEPT !.ret = TRUE],
                       w_node, p_node)
           ELSE MergeBackLoop_reversed(
                  [addNodeEdge(s1, back, w_node) EXCEPT !.ret = TRUE],
                  w_node, p_node)

\* back-edge loop that drops the predecessors of p_node
RECURSIVE MergeBackLoop_drop(_, _, _)
MergeBackLoop_drop(s, w_node, p_node) ==
  IF Len(s.back_edges[p_node]) = 0 THEN s
  ELSE MergeBackLoop_drop(removeBackEdge(s, p_node), w_node, p_node)

\* lines 128-142: transfer back edges to w_node.  The graph is computed
\* once (g ranges over a singleton) before the loop goes on.
MergeBackLoop(s, w_node, p_node) ==
  CHOOSE r \in {MergeBackStep(g, w_node, p_node) : g \in {s}} : TRUE

\* lines 129-141: one iteration on graph s, then the rest of the loop
MergeBackStep(s, w_node, p_node) ==
  IF Len(s.back_edges[p_node]) = 0 THEN s
  ELSE LET back == Back(s.back_edges[p_node])
           s1 == removeBackEdge(s, p_node)
           Merged(s2) ==
             IF ~s2.ret THEN s2
             ELSE MergeBackLoop(UseNode(s2, p_node), w_node, p_node)
       IN  IF back = w_node THEN MergeBackLoop(s1, w_node, p_node)
           ELSE IF is_promise(s1, back)
           THEN IF checkReachable(s1, w_node, back)
                THEN CHOOSE r \in
                       {Merged(g) : g \in
                          {mergeNodes(
                             [Decided(s1, w_node, back, TRUE)
                                EXCEPT !.mustMerge =
                                         Append(@, s1.promise[back])],
                             w_node, back)}} : TRUE
                ELSE MergeBackLoop(
                       [CycleNode_addEdge(Decided(s1, w_node, back, FALSE),
                                          back, w_node) EXCEPT !.ret = TRUE],
                       w_node, p_node)
           ELSE MergeBackLoop(
                  [addNodeEdge(s1, back, w_node) EXCEPT !.ret = TRUE],
                  w_node, p_node)

\* lines 145-158: transfer forward edges to w_node
MergeForwardLoop(s, w_node, p_node) ==
  CHOOSE r \in {MergeForwardStep(g, w_node, p_node) : g \in {s}} : TRUE

\* lines 146-157: one iteration on graph s, then the rest of the loop
MergeForwardStep(s, w_node, p_node) ==
  IF Len(s.edges[p_node]) = 0 THEN s
  ELSE LET forward == Back(s.edges[p_node])
           s1 == removeEdge(s, p_node)
           Merged(s2) ==
             IF ~s2.ret THEN s2
             ELSE MergeForwardLoop(UseNode(s2, p_node), w_node, p_node)
       IN  IF forward = w_node THEN MergeForwardLoop(s1, w_node, p_node)
           ELSE IF is_promise(s1, forward)
           THEN IF checkReachable(s1, forward, w_node)
                THEN CHOOSE r \in
                       {Merged(g) : g \in
                          {mergeNodes(
                             [s1 EXCEPT !.mustMerge =
                                          Append(@, s1.promise[forward])],
                             w_node, forward)}} : TRUE
                ELSE MergeForwardLoop(
                       [CycleNode_addEdge(s1, w_node, forward)
                          EXCEPT !.ret = TRUE],
                       w_node, p_node)
           ELSE MergeForwardLoop(
                  [addNodeEdge(s1, w_node, forward) EXCEPT !.ret = TRUE],
                  w_node, p_node)

\* mergeNodes without the compatibility test
mergeNodes_any(s, w_node, p_node) ==
  LET prom == s.promise[p_node]
      s1 == MergeBackLoop([s EXCEPT !.ret = TRUE], w_node, p_node)
  IN  IF ~s1.ret THEN s1
      ELSE LET s2 == MergeForwardLoop(s1, w_node, p_node)
           IN  IF ~s2.ret THEN s2
               ELSE LET s3 == [s2 EXCEPT !.readerToPromiseNode[prom] = NULL]
                        s4 == CycleNode_delete(s3, p_node)
                    IN  [s4 EXCEPT !.ret = ~s4.hasCycles]

mergeNodes(s, w_node, p_node) ==
  LET prom == s.promise[p_node]
  IN  IF ~is_compatible(prom, s.action[w_node])
      THEN [s EXCEPT !.hasCycles = TRUE, !.ret = FALSE]
      ELSE LET s0 == [s EXCEPT !.merging = Append(@, p_node), !.ret = TRUE]
               AfterForward(s2) ==
                 IF ~s2.ret THEN s2
                 ELSE LET s3 == [UseNode(s2, p_node) EXCEPT
                                   !.readerToPromiseNode[prom] = NULL]
                          s4 == CycleNode_delete(s3, p_node)
                      IN  [s4 EXCEPT !.ret = ~s4.hasCycles]
               AfterBack(s1) ==
                 IF ~s1.ret THEN s1
                 ELSE CHOOSE r \in
                        {AfterForward(g) : g \in
                           {MergeForwardLoop(UseNode(s1, p_node), w_node,
                                             p_node)}} : TRUE
           IN  CHOOSE r \in
                 {AfterBack(g) : g \in
                    {MergeBackLoop(s0, w_node, p_node)}} : TRUE

\* putNode
putNode(s, act, node) == [s EXCEPT !.actionToNode[act] = node]

\* resolvePromise that leaves the converted node registered as a promise
resolvePromise_keepReader(s, reader, writer) ==
  LET promise_node == s.readerToPromiseNode[reader]
      w_node == s.actionToNode[writer]
  IN  IF w_node # NULL THEN mergeNodes(s, w_node, promise_node)
      ELSE LET s1 == CycleNode_resolvePromise(s, promise_node, writer)
               s3 == putNode(s1, writer, promise_node)
           IN  [s3 EXCEPT !.ret = TRUE]

\* resolvePromise that reports every resolution as free of cycles
resolvePromise_true(s, reader, writer) ==
  LET promise_node == s.readerToPromiseNode[reader]
      w_node == s.actionToNode[writer]
  IN  IF w_node # NULL
      THEN [mergeNodes(s, w_node, promise_node) EXCEPT !.ret = TRUE]
      ELSE LET s1 == CycleNode_resolvePromise(s, promise_node, writer)
               s2 == [s1 EXCEPT !.readerToPromiseNode[reader] = NULL]
               s3 == putNode(s2, writer, promise_node)
           IN  [s3 EXCEPT !.ret = TRUE]

\* CycleGraph::resolvePromise(reader, writer, mustResolve)
resolvePromise(s, reader, writer) ==
  LET promise_node == s.readerToPromiseNode[reader]
      w_node == s.actionToNode[writer]
  IN  IF w_node # NULL THEN mergeNodes(s, w_node, promise_node)
      ELSE LET s1 == CycleNode_resolvePromise(s, promise_node, writer)
               s2 == [s1 EXCEPT !.readerToPromiseNode[reader] = NULL]
               s3 == putNode(s2, writer, promise_node)
           IN  [s3 EXCEPT !.ret = TRUE]

\* commit that keeps the undo log
commitChanges_keepLog(s) == [s EXCEPT !.oldCycles = s.hasCycles]

\* CycleGraph::commitChanges
commitChanges(s) ==
  [s EXCEPT !.rollbackvector = <<>>,
            !.rmwrollbackvector = <<>>,
            !.oldCycles = s.hasCycles]

\* CycleGraph::rollbackChanges
RECURSIVE PopEdges(_, _)
PopEdges(s, i) ==
  IF i > Len(s.rollbackvector) THEN s
  ELSE PopEdges(popEdge(s, s.rollbackvector[i]), i + 1)

RECURSIVE ClearRMWs(_, _)
ClearRMWs(s, i) ==
  IF i > Len(s.rmwrollbackvector) THEN s
  ELSE ClearRMWs(clearRMW(s, s.rmwrollbackvector[i]), i + 1)

\* rollback that pops one edge of each node of the log, however many
\* edges the node received
RECURSIVE PopEdgesOnce(_, _)
PopEdgesOnce(s, i) ==
  IF i > Len(s.rollbackvector) THEN s
  ELSE IF InSeq(s.rollbackvector[i], SubSeq(s.rollbackvector, 1, i - 1))
       THEN PopEdgesOnce(s, i + 1)
       ELSE PopEdgesOnce(popEdge(s, s.rollbackvector[i]), i + 1)

rollbackChanges_popOnce(s) ==
  LET s1 == PopEdgesOnce(s, 1)
      s2 == ClearRMWs(s1, 1)
  IN  [s2 EXCEPT !.hasCycles = s2.oldCycles,
                 !.rollbackvector = <<>>,
                 !.rmwrollbackvector = <<>>]

\* rollback that does not clear the log of rmw_successors
rollbackChanges_keepRMWLog(s) ==
  LET s1 == PopEdges(s, 1)
      s2 == ClearRMWs(s1, 1)
  IN  [s2 EXCEPT !.hasCycles = s2.oldCycles,
                 !.rollbackvector = <<>>]

\* rollback that leaves the rmw_successors of the transaction in place
rollbackChanges_keepRMW(s) ==
  LET s1 == PopEdges(s, 1)
  IN  [s1 EXCEPT !.hasCycles = s1.oldCycles,
                 !.rollbackvector = <<>>,
                 !.rmwrollbackvector = <<>>]

\* rollback that leaves the cycle flag raised
rollbackChanges_keepCycles(s) ==
  LET s1 == PopEdges(s, 1)
      s2 == ClearRMWs(s1, 1)
  IN  [s2 EXCEPT !.rollbackvector = <<>>, !.rmwrollbackvector = <<>>]

rollbackChanges(s) ==
  LET s1 == PopEdges(s, 1)
      s2 == ClearRMWs(s1, 1)
  IN  [s2 EXCEPT !.hasCycles = s2.oldCycles,
                 !.rollbackvector = <<>>,
                 !.rmwrollbackvector = <<>>]

\* The three assertions of CycleGraph::startChanges
startChanges_asserts(s) ==
  /\ s.rollbackvector = <<>>
  /\ s.rmwrollbackvector = <<>>
  /\ s.oldCycles = s.hasCycles

\* ---------------------------------------------------------------- FuncNode
\* The predicate tree of one FuncNode (src/funcnode.cc), its per-thread
\* stacks and maps, and the execution number of the ModelChecker that
\* add_inst reads.  Predicates are numbered in the order of their
\* construction; the fields of Predicate are sequences indexed by that
\* number.  The weights are left out: no operation on the tree, on the
\* stacks or on predicate_leaves reads them.  The write history of
\* ModelHistory is an input that stays as it is during a behaviour.
Positions == 1..NumPositions
WritePosition == 3
Locs == 1..NumLocs
Values == 0..(NumValues - 1)
Acts == [position : Positions, location : Locs, value : Values,
         tid : Threads]
act_is_write(act) == act.position = WritePosition
act_is_read(act) == ~act_is_write(act)

predicate_tree_entry == 1
predicate_tree_exit == 2
NoInst == [present |-> FALSE, location |-> NULL, single_location |-> TRUE,
           execution_number |-> 0]
NoPredExpr == [token |-> "NOPREDICATE", func_inst |-> NULL, value |-> TRUE]
NoRead == [value |-> VALUE_NONE, marker |-> 0]

\* FuncNode::FuncNode
FuncNode_new ==
  [func_inst_map |-> [p \in Positions |-> NoInst],
   func_inst |-> <<NULL, NULL>>,
   children |-> <<<<>>, <<>>>>,
   parent |-> <<NULL, NULL>>,
   pred_expressions |-> <<{NoPredExpr}, {}>>,
   exit |-> <<NULL, NULL>>,
   backedges |-> <<{}, {}>>,
   expl_count |-> <<0, 0>>,
   predicate_leaves |-> {},
   thrd_predicate_tree_position |-> [t \in Threads |-> <<>>],
   thrd_predicate_trace |-> [t \in Threads |-> <<>>],
   thrd_loc_inst_map |-> [t \in Threads |-> [l \in Locs |-> NULL]],
   thrd_inst_id_map |-> [t \in Threads |-> [p \in Positions |-> 0]],
   thrd_inst_pred_map |-> [t \in Threads |-> [p \in Positions |-> NULL]],
   marker |-> 1,
   thrd_marker |-> [t \in Threads |-> 0],
   associated_read |-> [p \in Positions |-> [t \in Threads |-> NoRead]],
   inst_counter |-> 1,
   read_locations |-> {},
   write_locations |-> {},
   val_loc_map |-> [v \in Values |-> {}],
   loc_may_equal_map |-> [l \in Locs |-> {}],
   write_history |-> [l \in Locs |-> {}],
   loc_wr_func_nodes |-> [l \in Locs |-> 0],
   execution_number |-> 1,
   log |-> <<>>,
   asserted |-> FALSE,
   assert_unset |-> FALSE]

\* FuncNode::set_new_exec_flag
set_new_exec_flag(f) ==
  [f EXCEPT !.read_locations = {},
            !.write_locations = {},
            !.val_loc_map = [v \in Values |-> {}],
            !.loc_may_equal_map = [l \in Locs |-> {}]]

\* new Predicate(inst): the next number, no children, no expressions
NumPredicates(f) == Len(f.children)
Predicate_new(f, inst) ==
  [f EXCEPT !.func_inst = Append(@, inst),
            !.children = Append(@, <<>>),
            !.parent = Append(@, NULL),
            !.pred_expressions = Append(@, {}),
            !.exit = Append(@, NULL),
            !.backedges = Append(@, {}),
            !.expl_count = Append(@, 0)]

\* curr_pred->add_child(pred); pred->set_parent(curr_pred)
add_child(f, curr_pred, pred) ==
  [f EXCEPT !.children[curr_pred] = Append(@, pred),
            !.parent[pred] = curr_pred]

add_predicate_expr(f, pred, token, inst, value) ==
  [f EXCEPT !.pred_expressions[pred] =
              @ \cup {[token |-> token, func_inst |-> inst, value |-> value]}]

is_entry_predicate(pred) == pred = predicate_tree_entry

\* FuncInst::set_associated_read and FuncInst::get_associated_read: the
\* value is kept with the marker of the call that read it, and a read of
\* another call is VALUE_NONE
set_associated_read(f, inst, tid, value, this_marker) ==
  [f EXCEPT !.associated_read[inst][tid] =
              [value |-> value, marker |-> this_marker]]
get_associated_read(f, inst, tid, this_marker) ==
  IF f.associated_read[inst][tid].marker = this_marker
  THEN f.associated_read[inst][tid].value
  ELSE VALUE_NONE

\* add_inst that keeps the location of the earlier executions
add_inst_no_reset(f, act) ==
  LET func_inst == f.func_inst_map[act.position]
  IN  IF ~func_inst.present
      THEN [f EXCEPT !.func_inst_map[act.position] =
                       [present |-> TRUE, location |-> act.location,
                        single_location |-> TRUE,
                        execution_number |-> f.execution_number]]
      ELSE [f EXCEPT !.func_inst_map[act.position].single_location =
                       IF func_inst.location # act.location
                       THEN FALSE ELSE @]

\* FuncNode::add_inst (with create_new_inst)
add_inst(f, act) ==
  LET func_inst == f.func_inst_map[act.position]
      fresh == func_inst.execution_number # f.execution_number
      location == IF fresh THEN act.location ELSE func_inst.location
  IN  IF ~func_inst.present
      THEN [f EXCEPT !.func_inst_map[act.position] =
                       [present |-> TRUE, location |-> act.location,
                        single_location |-> TRUE,
                        execution_number |-> f.execution_number]]
      ELSE [f EXCEPT !.func_inst_map[act.position] =
                       [@ EXCEPT !.location = location,
                                 !.execution_number = f.execution_number,
                                 !.single_location =
                                   IF location # act.location
                                   THEN FALSE ELSE @]]

is_single_location(f, inst) == f.func_inst_map[inst].single_location

\* One predicate expression of a branch against the action (follow_branch,
\* the switch): ok is predicate_correct, assert tells that the ASSERT on
\* last_read fails.  The values read are below 2^32, so the mask of the
\* NULLITY case leaves them as they are.
CheckExpr(f, e, act) ==
  IF e.token = "NOPREDICATE" THEN [ok |-> TRUE, assert |-> FALSE]
  ELSE IF e.token = "EQUALITY"
  THEN LET last_read == get_associated_read(f, e.func_inst, act.tid,
                                            f.thrd_marker[act.tid])
       IN  [ok |-> ((last_read = act.value) = e.value),
            assert |-> last_read = VALUE_NONE]
  ELSE [ok |-> ((act.value = NULL) = e.value), assert |-> FALSE]

\* FuncNode::follow_branch: the loop over the children of curr_pred;
\* assert names the ASSERT that failed, if one did
RECURSIVE FollowLoop(_, _, _, _, _, _)
FollowLoop(f, curr_pred, i, next_inst, act, unset_predicate) ==
  LET branches == f.children[curr_pred]
  IN  IF i > Len(branches)
      THEN [found |-> FALSE, curr_pred |-> curr_pred,
            unset_predicate |-> unset_predicate, assert |-> "none"]
      ELSE LET branch == branches[i]
               exprs == f.pred_expressions[branch]
           IN  IF f.func_inst[branch] # next_inst
               THEN FollowLoop(f, curr_pred, i + 1, next_inst, act,
                               unset_predicate)
               ELSE IF exprs = {}
               THEN IF unset_predicate = NULL
                    THEN FollowLoop(f, curr_pred, i + 1, next_inst, act,
                                    branch)
                    ELSE [found |-> FALSE, curr_pred |-> curr_pred,
                          unset_predicate |-> unset_predicate,
                          assert |-> "unset"]
               ELSE IF \E e \in exprs : CheckExpr(f, e, act).assert
               THEN [found |-> FALSE, curr_pred |-> curr_pred,
                     unset_predicate |-> unset_predicate,
                     assert |-> "last_read"]
               ELSE IF \A e \in exprs : CheckExpr(f, e, act).ok
               THEN [found |-> TRUE, curr_pred |-> branch,
                     unset_predicate |-> unset_predicate, assert |-> "none"]
               ELSE FollowLoop(f, curr_pred, i + 1, next_inst, act,
                               unset_predicate)

\* follow_branch that does not report the branch without expressions
follow_branch_no_unset(f, curr_pred, next_inst, act) ==
  [FollowLoop(f, curr_pred, 1, next_inst, act, NULL)
     EXCEPT !.unset_predicate = NULL]

follow_branch(f, curr_pred, next_inst, act) ==
  FollowLoop(f, curr_pred, 1, next_inst, act, NULL)

\* The locations of a set in the order of its iterator (taken ascending)
RECURSIVE LocSeq(_)
LocSeq(S) ==
  IF S = {} THEN <<>>
  ELSE LET l == CHOOSE x \in S : \A y \in S : x <= y
       IN  <<l>> \o LocSeq(S \ {l})

\* infer_predicates, lines 458-468: one EQUALITY half for each neighbor
\* that the thread has read in this call
RECURSIVE NeighborHalves(_, _, _)
NeighborHalves(loc_inst_map, neighbors, i) ==
  IF i > Len(neighbors) THEN <<>>
  ELSE (IF loc_inst_map[neighbors[i]] # NULL
        THEN <<[token |-> "EQUALITY",
                func_inst |-> loc_inst_map[neighbors[i]]]>>
        ELSE <<>>)
       \o NeighborHalves(loc_inst_map, neighbors, i + 1)

\* FuncNode::infer_predicates: the half predicate expressions, in order
infer_predicates(f, next_inst, act) ==
  LET loc == act.location
      loc_inst_map == f.thrd_loc_inst_map[act.tid]
  IN  IF act_is_read(act)
      THEN IF loc_inst_map[loc] # NULL
           THEN <<[token |-> "EQUALITY", func_inst |-> loc_inst_map[loc]]>>
           ELSE IF is_single_location(f, next_inst)
           THEN NeighborHalves(loc_inst_map,
                               LocSeq(f.loc_may_equal_map[loc]), 1)
           ELSE IF act.value = NULL
           THEN <<[token |-> "NULLITY", func_inst |-> NULL]>>
           ELSE <<>>
      ELSE <<>>

\* The expression sets of the predicates that generate_predicates builds
\* from the half expressions (lines 519-536), in the order of the vector
\* predicates
\* a half expression completed without its sign
HalfExpr_unsigned(h, value) ==
  [token |-> h.token, func_inst |-> h.func_inst, value |-> TRUE]
HalfExpr(h, value) ==
  [token |-> h.token, func_inst |-> h.func_inst, value |-> value]
RECURSIVE ExprSets(_, _, _)
ExprSets(halves, i, sets) ==
  IF i > Len(halves) THEN sets
  ELSE ExprSets(halves, i + 1,
         [j \in 1..Len(sets) |-> sets[j] \cup {HalfExpr(halves[i], TRUE)}]
         \o [j \in 1..Len(sets) |-> sets[j] \cup {HalfExpr(halves[i], FALSE)}])

\* only the first built predicate becomes a child and a leaf
AddPredicates_first(f, curr_pred, next_inst, sets, i) ==
  LET pred == NumPredicates(f) + 1
      f1 == Predicate_new(f, next_inst)
      f2 == [f1 EXCEPT !.pred_expressions[pred] = sets[1]]
      f3 == add_child(f2, curr_pred, pred)
  IN  [f3 EXCEPT !.predicate_leaves = @ \cup {pred}]

\* lines 538-545: the built predicates become children and leaves
RECURSIVE AddPredicates(_, _, _, _, _)
AddPredicates(f, curr_pred, next_inst, sets, i) ==
  IF i > Len(sets) THEN f
  ELSE LET pred == NumPredicates(f) + 1
           f1 == Predicate_new(f, next_inst)
           f2 == [f1 EXCEPT !.pred_expressions[pred] = sets[i]]
           f3 == add_child(f2, curr_pred, pred)
           f4 == [f3 EXCEPT !.predicate_leaves = @ \cup {pred}]
       IN  AddPredicates(f4, curr_pred, next_inst, sets, i + 1)

\* What the log keeps of the tree before a call that changes it
TreeBefore(f, curr_pred) ==
  [num |-> NumPredicates(f), children |-> f.children[curr_pred],
   predicate_leaves |-> f.predicate_leaves,
   pred_expressions |-> f.pred_expressions]

\* FuncNode::generate_predicates
generate_predicates(f, curr_pred, next_inst, halves, next_is_write) ==
  LET f0 == [f EXCEPT !.log =
               Append(@, [op |-> "generate", curr_pred |-> curr_pred,
                          next_inst |-> next_inst, halves |-> halves,
                          unset_pred |-> NULL,
                          before |-> TreeBefore(f, curr_pred)])]
  IN  IF Len(halves) = 0
      THEN LET new_pred == NumPredicates(f0) + 1
               f1 == Predicate_new(f0, next_inst)
               f2 == add_child(f1, curr_pred, new_pred)
               f3 == [f2 EXCEPT !.predicate_leaves =
                                  (@ \cup {new_pred}) \ {curr_pred}]
           IN  IF is_entry_predicate(curr_pred) \/ next_is_write
               THEN add_predicate_expr(f3, new_pred, "NOPREDICATE", NULL,
                                       TRUE)
               ELSE f3
      ELSE LET sets == ExprSets(halves, 2, <<{HalfExpr(halves[1], TRUE)},
                                             {HalfExpr(halves[1], FALSE)}>>)
               f1 == AddPredicates(f0, curr_pred, next_inst, sets, 1)
           IN  [f1 EXCEPT !.predicate_leaves = @ \ {curr_pred}]

\* the first child of curr_pred built for next_inst (lines 565-571)
RECURSIVE FirstChildOf(_, _, _, _)
FirstChildOf(f, children, i, next_inst) ==
  IF i > Len(children) THEN NULL
  ELSE IF f.func_inst[children[i]] = next_inst THEN children[i]
  ELSE FirstChildOf(f, children, i + 1, next_inst)

\* amend_predicate_expr that gives the new child the expression of the
\* unset child
amend_predicate_expr_sameSign(f, curr_pred, next_inst, act) ==
  LET unset_pred == FirstChildOf(f, f.children[curr_pred], 1, next_inst)
  IN  IF ~is_single_location(f, next_inst) /\ act.value = NULL
      THEN LET new_pred == NumPredicates(f) + 1
               f0 == [f EXCEPT !.log =
                        Append(@, [op |-> "amend", curr_pred |-> curr_pred,
                                   next_inst |-> next_inst, halves |-> <<>>,
                                   unset_pred |-> unset_pred,
                                   before |-> TreeBefore(f, curr_pred)])]
               f1 == Predicate_new(f0, next_inst)
               f2 == add_child(f1, curr_pred, new_pred)
               f3 == add_predicate_expr(f2, unset_pred, "NULLITY", NULL,
                                        FALSE)
               f4 == add_predicate_expr(f3, new_pred, "NULLITY", NULL, FALSE)
           IN  [f |-> f4, ret |-> TRUE]
      ELSE [f |-> f, ret |-> FALSE]

\* FuncNode::amend_predicate_expr
amend_predicate_expr(f, curr_pred, next_inst, act) ==
  LET unset_pred == FirstChildOf(f, f.children[curr_pred], 1, next_inst)
  IN  IF ~is_single_location(f, next_inst) /\ act.value = NULL
      THEN LET new_pred == NumPredicates(f) + 1
               f0 == [f EXCEPT !.log =
                        Append(@, [op |-> "amend", curr_pred |-> curr_pred,
                                   next_inst |-> next_inst, halves |-> <<>>,
                                   unset_pred |-> unset_pred,
                                   before |-> TreeBefore(f, curr_pred)])]
               f1 == Predicate_new(f0, next_inst)
               f2 == add_child(f1, curr_pred, new_pred)
               f3 == add_predicate_expr(f2, unset_pred, "NULLITY", NULL,
                                        FALSE)
               f4 == add_predicate_expr(f3, new_pred, "NULLITY", NULL, TRUE)
           IN  [f |-> f4, ret |-> TRUE]
      ELSE [f |-> f, ret |-> FALSE]

\* inst_id_map->get(inst): 0 for an instruction that is not in the map,
\* and for the entry predicate, which has no instruction
inst_id(inst_id_map, inst) == IF inst = NULL THEN 0 ELSE inst_id_map[inst]

\* update_predicate_tree, lines 338-353: the branch was found
TreeStep(f, curr_pred, next_inst, act) ==
  LET tid == act.tid
  IN  [f EXCEPT !.thrd_loc_inst_map[tid][f.func_inst_map[next_inst].location]
                  = IF act_is_read(act) THEN next_inst ELSE @,
                !.thrd_inst_pred_map[tid][next_inst] = curr_pred,
                !.thrd_predicate_tree_position[tid] =
                  [@ EXCEPT ![Len(@)] = curr_pred],
                !.thrd_inst_id_map[tid][next_inst] =
                  IF @ = 0 THEN f.inst_counter ELSE @,
                !.inst_counter =
                  IF f.thrd_inst_id_map[tid][next_inst] = 0
                  THEN @ + 1 ELSE @,
                !.expl_count[curr_pred] = @ + 1,
                !.thrd_predicate_trace[tid] =
                  [@ EXCEPT ![Len(@)] = Append(@, curr_pred)]]

\* FuncNode::update_predicate_tree: the while (true) loop
RECURSIVE TreeLoop(_, _, _)
TreeLoop(f, curr_pred, act) ==
  LET next_inst == act.position
      tid == act.tid
      inst_id_map == f.thrd_inst_id_map[tid]
      f1 == set_associated_read(f, next_inst, tid, act.value,
                                f.thrd_marker[tid])
      fb == follow_branch(f1, curr_pred, next_inst, act)
  IN  IF fb.assert # "none"
      THEN [f1 EXCEPT !.asserted = TRUE,
                      !.assert_unset = (fb.assert = "unset")]
      ELSE IF fb.found THEN TreeStep(f1, fb.curr_pred, next_inst, act)
      ELSE IF fb.unset_predicate # NULL
      THEN LET am == amend_predicate_expr(f1, curr_pred, next_inst, act)
           IN  IF am.ret THEN TreeLoop(am.f, curr_pred, act)
               ELSE TreeStep(f1, fb.unset_predicate, next_inst, act)
      ELSE IF /\ inst_id_map[next_inst] # 0
              /\ inst_id(inst_id_map, f1.func_inst[curr_pred])
                   >= inst_id_map[next_inst]
      THEN LET old_pred == f1.thrd_inst_pred_map[tid][next_inst]
               back_pred == f1.parent[old_pred]
           IN  TreeLoop([f1 EXCEPT !.backedges[curr_pred] =
                                     @ \cup {back_pred}],
                        back_pred, act)
      ELSE TreeLoop(generate_predicates(f1, curr_pred, next_inst,
                                        infer_predicates(f1, next_inst, act),
                                        act_is_write(act)),
                    curr_pred, act)

update_predicate_tree(f, act) ==
  TreeLoop(f, Back(f.thrd_predicate_tree_position[act.tid]), act)

\* update_loc_may_equal_map that makes every location that was read a
\* neighbor of the new one
update_loc_may_equal_map_all(f, new_loc, old_locations) ==
  IF new_loc \in old_locations THEN f
  ELSE [f EXCEPT !.loc_may_equal_map =
          [l \in Locs |->
             IF l = new_loc THEN @[l] \cup (f.read_locations \ {new_loc})
             ELSE IF l \in f.read_locations THEN @[l] \cup {new_loc}
             ELSE @[l]]]

\* FuncNode::update_loc_may_equal_map
update_loc_may_equal_map(f, new_loc, old_locations) ==
  IF new_loc \in old_locations THEN f
  ELSE [f EXCEPT !.loc_may_equal_map =
          [l \in Locs |->
             IF l = new_loc THEN @[l] \cup old_locations
             ELSE IF l \in old_locations THEN @[l] \cup {new_loc}
             ELSE @[l]]]

\* FuncNode::add_to_val_loc_map, for the values of a value set in the
\* order of its iterator (taken ascending)
RECURSIVE add_to_val_loc_map(_, _, _)
add_to_val_loc_map(f, values, loc) ==
  IF values = {} THEN f
  ELSE LET val == CHOOSE x \in values : \A y \in values : x <= y
           f1 == update_loc_may_equal_map(f, loc, f.val_loc_map[val])
           f2 == [f1 EXCEPT !.val_loc_map[val] = @ \cup {loc}]
       IN  add_to_val_loc_map(f2, values \ {val}, loc)

\* update_tree that notifies ModelHistory of every write
update_tree_notify_all(f, act) ==
  LET loc == act.location
  IN  IF act_is_write(act)
      THEN [f EXCEPT !.write_locations = @ \cup {loc},
                     !.loc_wr_func_nodes[loc] = @ + 1]
      ELSE LET f1 == IF /\ loc \notin f.read_locations
                        /\ is_single_location(f, act.position)
                     THEN add_to_val_loc_map(
                            [f EXCEPT !.read_locations = @ \cup {loc}],
                            f.write_history[loc], loc)
                     ELSE f
           IN  update_predicate_tree(f1, act)

\* FuncNode::update_tree; loc_wr_func_nodes counts the calls of
\* ModelHistory::update_loc_wr_func_nodes_map for the location
update_tree(f, act) ==
  LET loc == act.location
  IN  IF act_is_write(act)
      THEN IF loc \notin f.write_locations
           THEN [f EXCEPT !.write_locations = @ \cup {loc},
                          !.loc_wr_func_nodes[loc] = @ + 1]
           ELSE f
      ELSE LET f1 == IF /\ loc \notin f.read_locations
                        /\ is_single_location(f, act.position)
                     THEN add_to_val_loc_map(
                            [f EXCEPT !.read_locations = @ \cup {loc}],
                            f.write_history[loc], loc)
                     ELSE f
           IN  update_predicate_tree(f1, act)

\* FuncNode::set_marker
set_marker(f, tid) ==
  [f EXCEPT !.marker = @ + 1, !.thrd_marker[tid] = f.marker + 1]

\* init_predicate_tree_data_structure that pushes on the stack of every
\* thread
init_predicate_tree_data_structure_all(f, tid) ==
  [f EXCEPT !.thrd_predicate_tree_position =
              [t \in Threads |-> Append(@[t], predicate_tree_entry)],
            !.thrd_predicate_trace = [t \in Threads |-> Append(@[t], <<>>)]]

\* FuncNode::init_predicate_tree_data_structure
init_predicate_tree_data_structure(f, tid) ==
  [f EXCEPT !.thrd_predicate_tree_position[tid] =
              Append(@, predicate_tree_entry),
            !.thrd_predicate_trace[tid] = Append(@, <<>>)]

\* FuncNode::reset_predicate_tree_data_structure
reset_predicate_tree_data_structure(f, tid) ==
  [f EXCEPT !.thrd_predicate_tree_position[tid] = Front(@),
            !.thrd_predicate_trace[tid] = Front(@)]

\* FuncNode::reset_local_maps
reset_local_maps(f, tid) ==
  [f EXCEPT !.thrd_loc_inst_map[tid] = [l \in Locs |-> NULL],
            !.thrd_inst_id_map[tid] = [p \in Positions |-> 0],
            !.thrd_inst_pred_map[tid] = [p \in Positions |-> NULL]]

\* FuncNode::function_entry_handler; init_local_maps only allocates the
\* maps of a thread that has none
function_entry_handler(f, tid) ==
  init_predicate_tree_data_structure(set_marker(f, tid), tid)

\* FuncNode::function_exit_handler
function_exit_handler(f, tid) ==
  LET f1 == reset_local_maps(f, tid)
      exit_pred == Back(f1.thrd_predicate_tree_position[tid])
      f2 == [f1 EXCEPT !.exit[exit_pred] =
                         IF @ = NULL THEN predicate_tree_exit ELSE @]
  IN  reset_predicate_tree_data_structure(f2, tid)

\* ------------------------------------------------------------ ModelChecker
\* (src/model.cc)  The ModelExecution as far as the ModelChecker asks it:
\* is_infeasible, isfeasibleprefix, is_complete_execution, is_deadlocked,
\* the number of bug reports, have_fatal_bug_reports and has_asserted
ModelExecution_new ==
  [infeasible |-> FALSE, feasibleprefix |-> TRUE, complete |-> FALSE,
   deadlocked |-> FALSE, bugs |-> 0, fatal |-> FALSE, asserted |-> FALSE]

execution_stats_new ==
  [num_total |-> 0, num_infeasible |-> 0, num_buggy_executions |-> 0,
   num_complete |-> 0, num_redundant |-> 0]

\* The user threads as the run loop sees them: the pending action (its
\* kind, or "none"), whether the thread has handed its THREAD_START,
\* whether the Scheduler has it enabled and not blocked, and whether it is
\* complete.  "nonsc_write" is an ATOMIC_WRITE with memory_order_relaxed or
\* memory_order_release; "other" is any action that is neither such a
\* write nor a thread create, start or finish
Thread_new ==
  [pending |-> "none", started |-> FALSE, enabled |-> TRUE,
   complete |-> FALSE]

\* What the last step of the driver did and printed
NoOutput ==
  [op |-> "none", exec |-> 0, execution_number |-> 0,
   before |-> ModelExecution_new, took_step |-> FALSE, complete |-> FALSE,
   printed |-> FALSE, bugs_printed |-> FALSE, restarted |-> FALSE,
   more |-> FALSE, thread |-> 0, consumed |-> "none"]

\* The test of the for loop of ModelChecker::run
run_loop_test_inclusive(m) == m.exec <= m.params.maxexecutions
run_loop_test(m) == m.exec < m.params.maxexecutions

\* ModelChecker::ModelChecker and the start of ModelChecker::run: exec is
\* the loop variable of run, pc the place of the driver (in the step loop,
\* before next_execution, or after the for loop), steps the steps that the
\* user program still takes in the execution, ran the executions finished
ModelChecker_new(maxexecutions, verbose) ==
  LET m == [params |-> [maxexecutions |-> maxexecutions,
                        verbose |-> verbose],
            restart_flag |-> FALSE, execution_number |-> 1,
            stats |-> execution_stats_new,
            execution |-> ModelExecution_new,
            exec |-> 0, pc |-> "loop", steps |-> 0, ran |-> 0,
            threads |-> <<Thread_new>>, pending_assert |-> FALSE,
            out |-> NoOutput]
  IN  [m EXCEPT !.pc = IF run_loop_test(m) THEN "loop" ELSE "finished"]

have_bug_reports(ex) == ex.bugs > 0

\* ModelExecution::assert_bug: one more bug report
assert_bug(ex) == [ex EXCEPT !.bugs = @ + 1]

\* record_stats without the else before the test of the bug reports
record_stats_noElse(m) ==
  LET ex == m.execution
  IN  [m EXCEPT !.stats =
         [@ EXCEPT !.num_total = @ + 1,
                   !.num_infeasible =
                      IF ~ex.feasibleprefix THEN @ + 1 ELSE @,
                   !.num_buggy_executions =
                      IF have_bug_reports(ex) THEN @ + 1 ELSE @,
                   !.num_complete =
                      IF /\ ex.feasibleprefix
                         /\ ~have_bug_reports(ex)
                         /\ ex.complete
                      THEN @ + 1 ELSE @,
                   !.num_redundant =
                      IF /\ ex.feasibleprefix
                         /\ ~have_bug_reports(ex)
                         /\ ~ex.complete
                      THEN @ + 1 ELSE @]]

\* ModelChecker::record_stats
record_stats(m) ==
  LET ex == m.execution
  IN  [m EXCEPT !.stats =
         [@ EXCEPT !.num_total = @ + 1,
                   !.num_infeasible =
                      IF ~ex.feasibleprefix THEN @ + 1 ELSE @,
                   !.num_buggy_executions =
                      IF ex.feasibleprefix /\ have_bug_reports(ex)
                      THEN @ + 1 ELSE @,
                   !.num_complete =
                      IF /\ ex.feasibleprefix
                         /\ ~have_bug_reports(ex)
                         /\ ex.complete
                      THEN @ + 1 ELSE @,
                   !.num_redundant =
                      IF /\ ex.feasibleprefix
                         /\ ~have_bug_reports(ex)
                         /\ ~ex.complete
                      THEN @ + 1 ELSE @]]

\* ModelChecker::print_execution: the bug list is printed when printbugs
\* is set and the execution has bug reports
print_execution_any(m, printbugs) ==
  [m EXCEPT !.out.printed = TRUE,
            !.out.bugs_printed = have_bug_reports(m.execution)]
print_execution(m, printbugs) ==
  [m EXCEPT !.out.printed = TRUE,
            !.out.bugs_printed = printbugs /\ have_bug_reports(m.execution)]

\* ModelChecker::reset_to_initial_state: the snapshot of the start of the
\* program is restored
reset_to_initial_state(m) ==
  [m EXCEPT !.execution = ModelExecution_new, !.threads = <<Thread_new>>]

\* ModelChecker::do_restart
do_restart(m) ==
  [reset_to_initial_state(m) EXCEPT !.restart_flag = FALSE,
                                    !.stats = execution_stats_new,
                                    !.execution_number = 1]

\* ModelChecker::next_execution; out.more is the value it returns
next_execution(m) ==
  LET ex == m.execution
      complete == ex.feasibleprefix /\ (ex.complete \/ have_bug_reports(ex))
      m1 == [m EXCEPT !.execution =
                        IF complete /\ ex.deadlocked THEN assert_bug(ex)
                        ELSE ex,
                      !.out = [NoOutput EXCEPT
                                 !.op = "next_execution",
                                 !.exec = m.exec,
                                 !.execution_number = m.execution_number,
                                 !.before = ex,
                                 !.complete = complete,
                                 !.restarted = m.restart_flag]]
      m2 == record_stats(m1)
      m3 == IF \/ complete /\ m.params.verbose > 0
               \/ m.params.verbose > 1
               \/ complete /\ have_bug_reports(m2.execution)
            THEN print_execution(m2, complete)
            ELSE m2
  IN  IF m.restart_flag
      THEN [do_restart(m3) EXCEPT !.out.more = TRUE]
      ELSE [reset_to_initial_state(m3) EXCEPT !.execution_number = @ + 1,
                                              !.out.more = FALSE]

\* ModelChecker::should_terminate_execution
should_terminate_execution_no_assert(ex) ==
  IF ex.infeasible THEN [execution |-> ex, ret |-> TRUE]
  ELSE [execution |-> ex, ret |-> FALSE]
should_terminate_execution(ex) ==
  IF ex.infeasible THEN [execution |-> ex, ret |-> TRUE]
  ELSE IF ex.feasibleprefix /\ ex.fatal
       THEN [execution |-> [ex EXCEPT !.asserted = TRUE], ret |-> TRUE]
       ELSE [execution |-> ex, ret |-> FALSE]

\* What the user program and ModelExecution::take_step do in one iteration
\* of the step loop: race is a bug asserted between two actions, which
\* marks a feasible prefix asserted; thread is whether the scheduler has a
\* thread to run; the other fields are the execution after take_step, or,
\* without a thread, whether the execution is complete or deadlocked
StepInputs ==
  [race : BOOLEAN, thread : BOOLEAN, infeasible : BOOLEAN,
   feasibleprefix : BOOLEAN, bug : BOOLEAN, fatal : BOOLEAN,
   complete : BOOLEAN, deadlocked : BOOLEAN]

\* ModelExecution::take_step, seen from the ModelChecker
take_step(ex, in) ==
  [ex EXCEPT !.infeasible = in.infeasible,
             !.feasibleprefix = in.feasibleprefix /\ ~in.infeasible,
             !.bugs = IF in.bug THEN @ + 1 ELSE @,
             !.fatal = @ \/ (in.bug /\ in.fatal)]

\* One iteration of the do-while loop of ModelChecker::run
run_step(m, in) ==
  LET ex0 == m.execution
      ex1 == IF in.race
             THEN [assert_bug(ex0) EXCEPT !.asserted = ex0.feasibleprefix]
             ELSE ex0
      out == [NoOutput EXCEPT !.op = "step", !.exec = m.exec,
                              !.execution_number = m.execution_number,
                              !.before = ex0]
  IN  IF ex1.asserted
      THEN [m EXCEPT !.execution = ex1, !.pc = "next", !.out = out]
      ELSE IF ~in.thread
      THEN [m EXCEPT !.execution = [ex1 EXCEPT
                                      !.complete = in.complete,
                                      !.deadlocked = in.deadlocked],
                     !.pc = "next", !.out = out]
      ELSE LET st == should_terminate_execution(take_step(ex1, in))
           IN  [m EXCEPT !.execution = st.execution,
                         !.pc = IF st.ret THEN "next" ELSE "loop",
                         !.steps = @ - 1,
                         !.out = [out EXCEPT !.took_step = TRUE]]

\* The end of an iteration of the for loop of ModelChecker::run:
\* next_execution, exec++ and the test of the loop
run_next(m, steps) ==
  LET m1 == [next_execution(m) EXCEPT !.exec = @ + 1, !.ran = @ + 1,
                                      !.steps = steps]
  IN  [m1 EXCEPT !.pc = IF run_loop_test(m1) THEN "loop" ELSE "finished"]

UserThreads == 1..MaxUserThreads
NextKinds == {"nonsc_write", "create", "finish", "other"}

\* is_nonsc_write of model.cc
is_nonsc_write(pending) == pending = "nonsc_write"

\* ModelChecker::switch_to_master(act), called by thread i: the assertion
\* that the thread has no pending action, then set_pending(act)
switch_to_master(m, i, act) ==
  [m EXCEPT !.pending_assert = @ \/ m.threads[i].pending # "none",
            !.threads[i].pending = act]

\* The first loop of an iteration of run (lines 423-431): every thread
\* that is not complete and has no pending action, or a pending nonsc
\* write, is resumed and runs until it hands its next action to
\* switch_to_master; a new thread hands THREAD_START first
RECURSIVE StashLoop(_, _, _)
StashLoop(m, i, next) ==
  IF i > Len(m.threads) THEN m
  ELSE LET thr == m.threads[i]
       IN  IF /\ ~thr.complete
              /\ thr.pending = "none" \/ is_nonsc_write(thr.pending)
           THEN StashLoop(
                  switch_to_master(m, i, IF thr.started THEN next[i]
                                         ELSE "start"), i + 1, next)
           ELSE StashLoop(m, i + 1, next)

\* The second loop (lines 434-440): a thread whose pending action the
\* execution does not enable is put to sleep; refuse holds the threads for
\* which check_action_enabled answers false
RECURSIVE SleepLoop(_, _, _)
SleepLoop(m, i, refuse) ==
  IF i > Len(m.threads) THEN m
  ELSE LET th == m.threads[i]
       IN  IF /\ th.pending = "other"
              /\ th.enabled
              /\ i \in refuse
           THEN SleepLoop([m EXCEPT !.threads[i].enabled = FALSE],
                          i + 1, refuse)
           ELSE SleepLoop(m, i + 1, refuse)

\* A third loop that finds no thread
EagerThread_none(m, i) == 0

\* The third loop (lines 442-460): the first thread that is enabled and
\* not blocked and whose pending action is a relaxed or release write or a
\* thread create, start or finish; 0 if there is none
RECURSIVE EagerThread(_, _)
EagerThread(m, i) ==
  IF i > Len(m.threads) THEN 0
  ELSE LET th == m.threads[i]
       IN  IF /\ th.pending \in {"nonsc_write", "create", "start", "finish"}
              /\ th.enabled
           THEN i
           ELSE EagerThread(m, i + 1)

\* Lines 474-476 and ModelExecution::take_step for the thread t: the
\* pending action is consumed; a create adds a thread, a start starts the
\* thread, a finish completes it, and sleeping threads may wake
consume_pending(m, t, wake) ==
  LET kind == m.threads[t].pending
      m1 == [m EXCEPT !.threads[t].pending = "none",
                      !.threads[t].started = @ \/ kind = "start",
                      !.threads[t].complete = @ \/ kind = "finish"]
      m2 == IF kind = "create"
            THEN [m1 EXCEPT !.threads = Append(@, Thread_new)]
            ELSE m1
  IN  [m2 EXCEPT !.threads =
         [i \in 1..Len(m2.threads) |->
            IF i \in wake THEN [m2.threads[i] EXCEPT !.enabled = TRUE]
            ELSE m2.threads[i]],
                 !.out.consumed = kind]

\* One iteration of the do-while loop of ModelChecker::run, seen from the
\* threads.  The inputs in: the action each resumed thread hands next, the
\* threads whose action the execution refuses, the thread the Scheduler or
\* take_step selects when the third loop finds none (0: no thread), the
\* threads that take_step wakes, and whether should_terminate_execution
\* ends the execution
run_threads(m, in) ==
  LET out == [NoOutput EXCEPT !.op = "threads", !.exec = m.exec,
                              !.execution_number = m.execution_number,
                              !.before = m.execution]
      m1 == StashLoop([m EXCEPT !.out = out], 1, in.next)
      m2 == SleepLoop(m1, 1, in.refuse)
      eager == EagerThread(m2, 1)
      t == IF eager # 0 THEN eager ELSE in.pick
  IN  IF t = 0 THEN [m2 EXCEPT !.pc = "next"]
      ELSE LET m3 == consume_pending([m2 EXCEPT !.out.thread = t,
                                               !.out.took_step = TRUE],
                                     t, in.wake)
           IN  [m3 EXCEPT !.pc = IF in.end THEN "next" ELSE "loop"]

\* ------------------------------------------------------------ state machine
\* A public call: its name, its node arguments, its result, and the name of
\* the call before it
NoBudget ==
  [calls |-> 0, acts |-> 0, percall |-> 0, depth |-> 0, threads |-> 0,
   execs |-> 0, positions |-> 0, locs |-> 0]
NoFuncCall ==
  [op |-> "none", tid |-> NULL, act |-> NULL, before |-> FuncNode_new,
   entered |-> [t \in Threads |-> <<>>], matched |-> <<>>,
   seen |-> [p \in Positions |-> {}],
   seen_exec |-> [p \in Positions |-> {}],
   split |-> [p \in Positions |-> FALSE]]
NoCall == [op |-> "none", a |-> NULL, b |-> NULL, ret |-> TRUE,
           after |-> "none"]
Call(op, a, b, ret) ==
  [op |-> op, a |-> a, b |-> b, ret |-> ret, after |-> last.op]

InitGraph ==
  /\ live = {}
  /\ freed = {}
  /\ action = [n \in NodeIds |-> NULL]
  /\ promise = [n \in NodeIds |-> NULL]
  /\ edges = [n \in NodeIds |-> <<>>]
  /\ back_edges = [n \in NodeIds |-> <<>>]
  /\ hasRMW = [n \in NodeIds |-> NULL]
  /\ actionToNode = [a \in Actions |-> NULL]
  /\ readerToPromiseNode = [p \in Readers |-> NULL]
  /\ hasCycles = FALSE
  /\ oldCycles = FALSE
  /\ rollbackvector = <<>>
  /\ rmwrollbackvector = <<>>
  /\ mustMerge = <<>>
  /\ merging = <<>>
  /\ decisions = <<>>
  /\ uaf = FALSE
  /\ last = NoCall
  /\ prev = Cur
  /\ snap = Cur
  /\ inTxn = FALSE
  /\ txnMerged = FALSE
  /\ npromises = 0
  /\ available = [p \in Readers |-> Threads]
  /\ visited = <<>>
  /\ flast = NoFuncCall

Init ==
  /\ InitGraph
  /\ maxactions = NumActions
  /\ maxpromises = NumPromises
  /\ nops = MaxOps
  /\ fbudget = NoBudget
  /\ mc = ModelChecker_new(0, 0)
  /\ fn = FuncNode_new

\* Choices of the allocator for a `new`: NULL = fresh storage preferred
AllocChoices == {NULL} \cup freed

\* ModelActions and Promises are numbered in the order in which they reach
\* the graph: action a can be handed in once a - 1 has a node, promise p
\* once p - 1 promises got a node.
Known(a) ==
  /\ a <= maxactions
  /\ IF a = 1 THEN TRUE ELSE actionToNode[a - 1] # NULL
KnownPromise(p) == p <= npromises
KnownRef(x) == IF x.kind = "act" THEN Known(x.id) ELSE KnownPromise(x.id)
NextRef(x, y) ==
  /\ x.kind = y.kind
  /\ y.id = x.id + 1
  /\ IF x.kind = "act"
     THEN actionToNode[x.id] = NULL /\ y.id <= maxactions
     ELSE x.id = npromises + 1 /\ y.id <= maxpromises
FreshRef(x) ==
  IF x.kind = "act" THEN Known(x.id)
  ELSE x.id <= npromises + 1 /\ x.id <= maxpromises
KnownPair(x, y) ==
  /\ FreshRef(x)
  /\ FreshRef(y) \/ NextRef(x, y)
\* Promises that get their first node when x and y are looked up
NewPromises(x, y) ==
  Cardinality({z \in {x, y} : z.kind = "prom" /\ z.id > npromises})

\* mo_graph->addEdge(from, to)
AddEdge ==
  \E from \in Refs, to \in Refs, r \in AllocChoices :
    /\ ~uaf
    /\ inTxn
    /\ nops > 0
    /\ KnownPair(from, to)
    /\ CanAlloc(Cur, {from, to})
    /\ \E s \in {addEdge(Cur, from, to, r)} :
           /\ SetGraph(s)
           /\ prev' = Cur
           /\ last' = Call("addEdge", RefNode_ret(Cur, from, r),
                           RefNode_ret(RefNode(Cur, from, r), to, r), s.ret)
    /\ npromises' = npromises + NewPromises(from, to)
    /\ nops' = nops - 1
    /\ UNCHANGED <<snap, inTxn, txnMerged, maxactions, maxpromises, pvars>>

\* mo_graph->addRMWEdge(from, rmw)
AddRMWEdge ==
  \E from \in Actions, rmw \in Actions, r \in AllocChoices :
    /\ ~uaf
    /\ inTxn
    /\ nops > 0
    /\ KnownPair(ActRef(from), ActRef(rmw))
    /\ CanAlloc(Cur, {ActRef(from), ActRef(rmw)})
    /\ \E s \in {addRMWEdge(Cur, from, rmw, r)} :
           /\ SetGraph(s)
           /\ prev' = Cur
           /\ last' = Call("addRMWEdge", getNode_ret(Cur, from, r),
                           getNode_ret(getNode(Cur, from, r), rmw, r), s.ret)
    /\ nops' = nops - 1
    /\ UNCHANGED <<snap, inTxn, txnMerged, npromises, maxactions,
                   maxpromises, pvars>>

\* mo_graph->getNode(promise): create the placeholder of a promise
GetPromiseNode ==
  \E p \in Readers, r \in AllocChoices :
    /\ ~uaf
    /\ inTxn
    /\ nops > 0
    /\ p <= npromises + 1
    /\ p <= maxpromises
    /\ readerToPromiseNode[p] = NULL
    /\ CanAlloc(Cur, {PromRef(p)})
    /\ \E s \in {getPromiseNode(Cur, p, r)} : SetGraph(s)
    /\ prev' = Cur
    /\ last' = Call("getNode", getPromiseNode_ret(Cur, p, r), NULL, TRUE)
    /\ npromises' = IF p > npromises THEN p ELSE npromises
    /\ nops' = nops - 1
    /\ UNCHANGED <<snap, inTxn, txnMerged, maxactions, maxpromises, pvars>>

\* mo_graph->resolvePromise(reader, writer, &mustResolve)
\* The caller resolves a promise only with a write compatible with it when
\* the promise node is converted in place (ASSERT at line 507).
ResolvePromise ==
  \E reader \in Readers, writer \in Actions :
    /\ ~uaf
    /\ inTxn
    /\ nops > 0
    /\ Known(writer)
    /\ readerToPromiseNode[reader] # NULL
    /\ actionToNode[writer] = NULL => is_compatible(reader, writer)
    /\ \E s \in {resolvePromise([Cur EXCEPT !.mustMerge = <<>>,
                                              !.merging = <<>>,
                                              !.decisions = <<>>],
                                  reader, writer)} :
           /\ SetGraph(s)
           /\ prev' = Cur
           /\ last' = Call(IF actionToNode[writer] = NULL
                           THEN "resolveInPlace" ELSE "merge",
                           actionToNode[writer],
                           readerToPromiseNode[reader], s.ret)
    /\ nops' = nops - 1
    /\ txnMerged' = TRUE
    /\ UNCHANGED <<snap, inTxn, npromises, maxactions, maxpromises, pvars>>

\* mo_graph->startChanges(): the assertions must hold, nothing changes
StartChanges ==
  /\ ~uaf
  /\ ~inTxn
  /\ startChanges_asserts(Cur)
  /\ snap' = Cur
  /\ inTxn' = TRUE
  /\ txnMerged' = FALSE
  /\ prev' = Cur
  /\ last' = Call("startChanges", NULL, NULL, TRUE)
  /\ UNCHANGED <<gvars, npromises, maxactions, maxpromises, nops, pvars>>

\* mo_graph->commitChanges()
CommitChanges ==
  /\ ~uaf
  /\ inTxn
  /\ \E s \in {commitChanges(Cur)} : SetGraph(s)
  /\ prev' = Cur
  /\ last' = Call("commitChanges", NULL, NULL, TRUE)
  /\ inTxn' = FALSE
  /\ UNCHANGED <<snap, txnMerged, npromises, maxactions, maxpromises, nops,
                 pvars>>

\* mo_graph->rollbackChanges()
RollbackChanges ==
  /\ ~uaf
  /\ \E s \in {rollbackChanges(Cur)} : SetGraph(s)
  /\ prev' = Cur
  /\ last' = Call("rollbackChanges", NULL, NULL, inTxn)
  /\ inTxn' = FALSE
  /\ UNCHANGED <<snap, txnMerged, npromises, maxactions, maxpromises, nops,
                 pvars>>

\* mo_graph->checkPromise(fromact, promise); fromact has a node (line 309
\* looks it up and the loop dereferences it), and the promise has not
\* failed yet: a failed promise ends the execution
CheckPromise ==
  \E fromact \in Actions, p \in Readers :
    /\ ~uaf
    /\ p <= maxpromises
    /\ actionToNode[fromact] # NULL
    /\ available[p] # {}
    /\ \E c \in {checkPromise(Cur, fromact, available[p])} :
           /\ available' = [available EXCEPT ![p] = c.available]
           /\ visited' = c.visited
           /\ last' = [op |-> "checkPromise", a |-> actionToNode[fromact],
                       b |-> NULL, ret |-> c.ret, after |-> last.op,
                       p |-> p, avail |-> available[p]]
    /\ prev' = Cur
    /\ UNCHANGED <<gvars, snap, inTxn, txnMerged, npromises, maxactions,
                   maxpromises, nops, fn, fbudget, flast, mc>>

Next ==
  \/ AddEdge
  \/ AddRMWEdge
  \/ GetPromiseNode
  \/ ResolvePromise
  \/ StartChanges
  \/ CommitChanges
  \/ RollbackChanges

Spec == Init /\ [][Next]_vars

\* The graph of concrete nodes only: edges and RMW edges between
\* ModelActions, transactions; no Promise is handed in
NextEdges ==
  \/ AddEdge
  \/ AddRMWEdge
  \/ StartChanges
  \/ CommitChanges
  \/ RollbackChanges

InitEdges ==
  /\ InitGraph
  /\ maxactions = NumActions
  /\ maxpromises = NumPromisesEdges
  /\ nops = MaxOpsEdges
  /\ fbudget = NoBudget
  /\ mc = ModelChecker_new(0, 0)
  /\ fn = FuncNode_new

SpecEdges == InitEdges /\ [][NextEdges]_vars

\* Edges among ModelActions and one Promise, and the failure check of the
\* promise; no promise is resolved
NextCheck ==
  \/ AddEdge
  \/ AddRMWEdge
  \/ CheckPromise
  \/ StartChanges
  \/ CommitChanges
  \/ RollbackChanges

InitCheck ==
  /\ InitGraph
  /\ maxactions = NumActions
  /\ maxpromises = NumPromisesCheck
  /\ nops = MaxOpsCheck
  /\ fbudget = NoBudget
  /\ mc = ModelChecker_new(0, 0)
  /\ fn = FuncNode_new

SpecCheck == InitCheck /\ [][NextCheck]_vars

\* The budget of a behaviour of the FuncNode: calls still to come, actions
\* still to come in the calls that are open, and the bounds of the inputs
FuncBudget(calls, percall, depth, threads, execs, positions, locs) ==
  [calls |-> calls, acts |-> 0, percall |-> percall, depth |-> depth,
   threads |-> threads, execs |-> execs, positions |-> positions,
   locs |-> locs]

\* A call of a handler of the FuncNode: its name, thread and action, the
\* FuncNode before it, and for each thread the position stacks it had at
\* the entries it has not left yet; matched is the stack of the thread
\* before the entry that an exit matches.  seen and seen_exec are the
\* locations at which each source position was observed so far, in all
\* executions and in this one; split tells that some execution observed
\* the position at two locations.
FuncCall(op, tid, act, entered, matched) ==
  LET seen_exec == IF op = "execution" THEN [p \in Positions |-> {}]
                   ELSE IF op # "update" THEN flast.seen_exec
                   ELSE [flast.seen_exec EXCEPT ![act.position] =
                           @ \cup {act.location}]
  IN  [op |-> op, tid |-> tid, act |-> act, before |-> fn,
       entered |-> entered, matched |-> matched,
       seen |-> IF op # "update" THEN flast.seen
                ELSE [flast.seen EXCEPT ![act.position] =
                        @ \cup {act.location}],
       seen_exec |-> seen_exec,
       split |-> [p \in Positions |->
                    flast.split[p] \/ Cardinality(seen_exec[p]) >= 2]]

\* ModelHistory enters the function for the thread
FunctionEntry ==
  \E tid \in Threads :
    /\ ~fn.asserted
    /\ tid <= fbudget.threads
    /\ Len(fn.thrd_predicate_tree_position[tid]) < fbudget.depth
    /\ fbudget.calls > 0
    /\ fn' = function_entry_handler([fn EXCEPT !.log = <<>>], tid)
    /\ fbudget' = [fbudget EXCEPT !.calls = @ - 1, !.acts = fbudget.percall]
    /\ flast' = FuncCall("entry", tid, NULL,
                         [flast.entered EXCEPT ![tid] =
                            Append(@, fn.thrd_predicate_tree_position[tid])],
                         <<>>)
    /\ UNCHANGED <<cvars, mc>>

\* ModelHistory leaves the function for the thread
FunctionExit ==
  \E tid \in Threads :
    /\ ~fn.asserted
    /\ fn.thrd_predicate_tree_position[tid] # <<>>
    /\ fn' = function_exit_handler([fn EXCEPT !.log = <<>>], tid)
    /\ fbudget' = [fbudget EXCEPT !.acts =
                     IF \A t \in Threads :
                          fn'.thrd_predicate_tree_position[t] = <<>>
                     THEN 0 ELSE @]
    /\ flast' = FuncCall("exit", tid, NULL,
                         [flast.entered EXCEPT ![tid] = Front(@)],
                         Back(flast.entered[tid]))
    /\ UNCHANGED <<cvars, mc>>

\* An atomic read or write of a thread inside the function: add_inst, then
\* update_tree
UpdateTree ==
  \E act \in Acts :
    /\ ~fn.asserted
    /\ act.position <= fbudget.positions
    /\ act.location <= fbudget.locs
    /\ fn.thrd_predicate_tree_position[act.tid] # <<>>
    /\ fbudget.acts > 0
    /\ fn' = update_tree(add_inst([fn EXCEPT !.log = <<>>], act), act)
    /\ fbudget' = [fbudget EXCEPT !.acts = @ - 1]
    /\ flast' = FuncCall("update", act.tid, act, flast.entered, <<>>)
    /\ UNCHANGED <<cvars, mc>>

\* The next execution starts while no thread is inside the function: the
\* execution number of the ModelChecker grows (ModelChecker::next_execution)
\* and the FuncNode gets new snapshotted sets
NewExecution ==
  /\ ~fn.asserted
  /\ fbudget.execs > 0
  /\ \A t \in Threads : fn.thrd_predicate_tree_position[t] = <<>>
  /\ fn' = [set_new_exec_flag(fn) EXCEPT !.execution_number = @ + 1,
                                        !.log = <<>>]
  /\ fbudget' = [fbudget EXCEPT !.execs = @ - 1]
  /\ flast' = FuncCall("execution", NULL, NULL, flast.entered, <<>>)
  /\ UNCHANGED <<cvars, mc>>

NextFunc ==
  \/ FunctionEntry
  \/ FunctionExit
  \/ UpdateTree
  \/ NewExecution

\* The write histories of ModelHistory: nothing written, or the value 1
\* written to every location
WriteHistories == {[l \in Locs |-> {}], [l \in Locs |-> {1}]}

InitFuncNode(budget) ==
  /\ InitGraph
  /\ maxactions = 0
  /\ maxpromises = 0
  /\ nops = 0
  /\ fbudget = budget
  /\ mc = ModelChecker_new(0, 0)
  /\ \E h \in WriteHistories : fn = [FuncNode_new EXCEPT !.write_history = h]

\* One thread that calls the function, one call after the other
InitFunc ==
  InitFuncNode(FuncBudget(MaxCalls, MaxActs, 1, 1, MaxNewExecs,
                          NumPositionsFunc, NumLocsFunc))

SpecFunc == InitFunc /\ [][NextFunc]_vars

\* One call with more reads at more locations
InitGen ==
  InitFuncNode(FuncBudget(MaxCallsGen, MaxActsGen, 1, 1, MaxNewExecs,
                          NumPositions, NumLocs))

SpecGen == InitGen /\ [][NextFunc]_vars

\* Two threads, and calls of the function inside a call of it
InitThreads ==
  InitFuncNode(FuncBudget(MaxCallsThreads, MaxActsThreads, MaxDepth,
                          NumThreads, MaxNewExecs, NumPositionsThreads,
                          NumLocsFunc))

SpecThreads == InitThreads /\ [][NextFunc]_vars

\* Write histories in which the locations differ in the values written to
\* them: 0 was written to the first location, and 0, 1 or both to each of
\* the others
WriteHistoriesLoc ==
  {h \in [Locs -> SUBSET Values] : h[1] = {0} /\ \A l \in Locs : h[l] # {}}

\* One call with reads at locations with any write history
InitLoc ==
  /\ InitGraph
  /\ maxactions = 0
  /\ maxpromises = 0
  /\ nops = 0
  /\ fbudget = FuncBudget(MaxCallsGen, MaxActsGen, 1, 1, MaxNewExecs,
                          NumPositions, NumLocs)
  /\ mc = ModelChecker_new(0, 0)
  /\ \E h \in WriteHistoriesLoc :
       fn = [FuncNode_new EXCEPT !.write_history = h]

SpecLoc == InitLoc /\ [][NextFunc]_vars

\* The graph of a CycleGraph that was just constructed
EmptyGraph ==
  [live |-> {}, freed |-> {},
   action |-> [n \in NodeIds |-> NULL],
   promise |-> [n \in NodeIds |-> NULL],
   edges |-> [n \in NodeIds |-> <<>>],
   back_edges |-> [n \in NodeIds |-> <<>>],
   hasRMW |-> [n \in NodeIds |-> NULL],
   actionToNode |-> [a \in Actions |-> NULL],
   readerToPromiseNode |-> [p \in Readers |-> NULL],
   hasCycles |-> FALSE, oldCycles |-> FALSE,
   rollbackvector |-> <<>>, rmwrollbackvector |-> <<>>,
   mustMerge |-> <<>>, merging |-> <<>>, decisions |-> <<>>,
   uaf |-> FALSE, ret |-> TRUE]

\* the variables hold graph s
IsGraph(s) ==
  /\ live = s.live
  /\ freed = s.freed
  /\ action = s.action
  /\ promise = s.promise
  /\ edges = s.edges
  /\ back_edges = s.back_edges
  /\ hasRMW = s.hasRMW
  /\ actionToNode = s.actionToNode
  /\ readerToPromiseNode = s.readerToPromiseNode
  /\ hasCycles = s.hasCycles
  /\ oldCycles = s.oldCycles
  /\ rollbackvector = s.rollbackvector
  /\ rmwrollbackvector = s.rmwrollbackvector
  /\ mustMerge = s.mustMerge
  /\ merging = s.merging
  /\ decisions = s.decisions
  /\ uaf = s.uaf

\* One write and the promises around it: every call of the interface, after
\* a first, committed transaction addEdge(P1, P2); addEdge(P3, P1);
\* addEdge(A1, P2) and the first call of the second one, addEdge(P1, P1)
InitMerge ==
  \E g1 \in {addEdge(EmptyGraph, PromRef(1), PromRef(2), NULL)} :
  \E g2 \in {addEdge(g1, PromRef(3), PromRef(1), NULL)} :
  \E g3 \in {addEdge(g2, ActRef(1), PromRef(2), NULL)} :
  \E committed \in {[commitChanges(g3) EXCEPT !.ret = TRUE]} :
  \E setup \in {addEdge(committed, PromRef(1), PromRef(1), NULL)} :
  /\ IsGraph(setup)
  /\ last = [op |-> "addEdge", a |-> setup.readerToPromiseNode[1],
             b |-> setup.readerToPromiseNode[1],
             ret |-> setup.ret, after |-> "startChanges"]
  /\ prev = committed
  /\ snap = committed
  /\ inTxn = TRUE
  /\ txnMerged = FALSE
  /\ npromises = NumPromisesMerge
  /\ available = [p \in Readers |-> Threads]
  /\ visited = <<>>
  /\ fn = FuncNode_new
  /\ fbudget = NoBudget
  /\ mc = ModelChecker_new(0, 0)
  /\ flast = NoFuncCall
  /\ maxactions = NumActionsMerge
  /\ maxpromises = NumPromisesMerge
  /\ nops = MaxOpsMerge

SpecMerge == InitMerge /\ [][Next]_vars

\* ------------------------------------------------- ModelChecker::run
\* One iteration of the step loop of the current execution
RunStep ==
  \E in \in StepInputs :
    /\ mc.pc = "loop"
    /\ in.thread => mc.steps > 0
    /\ in.race \/ (in.thread /\ in.bug) => mc.execution.bugs < MaxBugs
    /\ mc' = run_step(mc, in)
    /\ UNCHANGED <<cvars, fn, fbudget, flast>>

\* A plugin or the user program asks for a restart: ModelChecker::restart
Restart ==
  /\ mc.pc = "loop"
  /\ ~mc.restart_flag
  /\ mc' = [mc EXCEPT !.restart_flag = TRUE,
                      !.out = [NoOutput EXCEPT
                                 !.op = "restart", !.exec = mc.exec,
                                 !.execution_number = mc.execution_number,
                                 !.before = mc.execution]]
  /\ UNCHANGED <<cvars, fn, fbudget, flast>>

\* The step loop has ended: next_execution and the next iteration of the
\* for loop
NextExecution ==
  /\ mc.pc = "next"
  /\ mc' = run_next(mc, MaxSteps)
  /\ UNCHANGED <<cvars, fn, fbudget, flast>>

NextRun ==
  \/ RunStep
  \/ Restart
  \/ NextExecution

\* The parameters of the run: maxexecutions and verbose of model_params
InitRun ==
  /\ InitGraph
  /\ maxactions = 0
  /\ maxpromises = 0
  /\ nops = 0
  /\ fn = FuncNode_new
  /\ fbudget = NoBudget
  /\ \E maxexecutions \in 0..MaxExecutions, verbose \in 0..MaxVerbose :
       mc = [ModelChecker_new(maxexecutions, verbose)
               EXCEPT !.steps = MaxSteps]

SpecRun == InitRun /\ [][NextRun]_vars

\* ModelChecker::run calls next_execution as soon as the step loop ends
SpecRunFair == SpecRun /\ WF_vars(NextExecution)

\* One iteration of the step loop, with the threads of the user program.
\* A thread hands a thread create only while another thread may still be
\* created, the Scheduler selects an enabled thread, the execution
\* refuses only actions that are neither writes nor thread actions, and
\* take_step wakes only threads that sleep.  The inputs of the threads
\* that the iteration does not ask are fixed
RunThreads ==
  \E next \in [UserThreads -> NextKinds] :
    /\ mc.pc = "loop"
    /\ ~mc.pending_assert
    /\ \A i \in UserThreads :
         next[i] # "other" =>
           /\ i <= Len(mc.threads)
           /\ ~mc.threads[i].complete
           /\ mc.threads[i].started
           /\ mc.threads[i].pending \in {"none", "nonsc_write"}
    /\ Len(mc.threads)
         + Cardinality({j \in 1..Len(mc.threads) :
              \/ mc.threads[j].pending = "create"
              \/ next[j] = "create"}) <= MaxUserThreads
    /\ \E refuse \in SUBSET {i \in 1..Len(mc.threads) :
                               /\ mc.threads[i].enabled
                               /\ ~mc.threads[i].complete
                               /\ next[i] = "other"},
          wake \in SUBSET {i \in 1..Len(mc.threads) :
                             ~mc.threads[i].enabled},
          pick \in {0} \cup {i \in 1..Len(mc.threads) :
                                /\ mc.threads[i].enabled
                                /\ ~mc.threads[i].complete},
          end \in BOOLEAN :
          /\ pick \notin refuse
          /\ mc' = run_threads(mc, [next |-> next, refuse |-> refuse,
                                    pick |-> pick, wake |-> wake,
                                    end |-> end])
    /\ UNCHANGED <<cvars, fn, fbudget, flast>>

NextSched ==
  \/ RunThreads
  \/ NextExecution

\* A run of MaxExecutionsSched executions of a program with threads
InitSched ==
  /\ InitGraph
  /\ maxactions = 0
  /\ maxpromises = 0
  /\ nops = 0
  /\ fn = FuncNode_new
  /\ fbudget = NoBudget
  /\ mc = ModelChecker_new(MaxExecutionsSched, 0)

SpecSched == InitSched /\ [][NextSched]_vars

\* ------------------------------------------------------------- properties
\* Successors of n along forward and rmw_successor edges, among live nodes
Succ(s, n) ==
  ({s.edges[n][i] : i \in 1..Len(s.edges[n])}
     \cup ({s.hasRMW[n]} \ {NULL})) \cap s.live

\* Nodes reachable from the nodes of S by zero or more edges
RECURSIVE Closure(_, _)
Closure(s, S) ==
  LET T == S \cup UNION {Succ(s, n) : n \in S}
  IN  IF T = S THEN S ELSE Closure(s, T)

\* b is reachable from a by zero or more edges
Reaches(s, a, b) == b \in Closure(s, {a})

\* Nodes reachable from the nodes of S along forward edges alone
RECURSIVE ForwardClosure(_, _)
ForwardClosure(s, S) ==
  LET T == S \cup UNION {{s.edges[n][i] : i \in 1..Len(s.edges[n])} : n \in S}
  IN  IF T = S THEN S ELSE ForwardClosure(s, T)

\* b is reachable from a by zero or more forward edges
ReachesByEdges(s, a, b) == b \in ForwardClosure(s, {a})

\* some node reaches itself along a non-empty path
HasCycle(s) == \E n \in s.live : n \in Closure(s, Succ(s, n))

Count(v, x) == Cardinality({i \in 1..Len(v) : v[i] = x})

\* What a rollback is meant to restore
Restorable(s) ==
  [live |-> s.live, edges |-> s.edges, back_edges |-> s.back_edges,
   hasRMW |-> s.hasRMW, hasCycles |-> s.hasCycles]

\* the last call was a rollback of an open transaction
AfterTxnRollback == last.op = "rollbackChanges" /\ last.ret

\* C1 (as stated): after begin_txn, any sequence of public operations and a
\* rollback, the graph is exactly as at begin_txn: same nodes, same forward
\* and back edge lists, same rmw_successor, same has_cycles.
C1_RollbackRestoresGraph ==
  AfterTxnRollback => Restorable(Cur) = Restorable(snap)

\* C1 (amended): when the transaction holds only add_edge, add_rmw_edge and
\* get_or_create_promise_node calls, rollback restores every node's forward
\* and back edge lists and rmw_successor and the cycle flag; the nodes
\* created in the transaction stay.
C1_RollbackRestoresEdges ==
  (AfterTxnRollback /\ ~txnMerged) =>
     /\ edges = snap.edges
     /\ back_edges = snap.back_edges
     /\ hasRMW = snap.hasRMW
     /\ hasCycles = snap.hasCycles
     /\ snap.live \subseteq live

\* a rollback that undid edges and an rmw_successor on top of committed edges
C1_Witness ==
  /\ AfterTxnRollback
  /\ ~txnMerged
  /\ prev.rollbackvector # <<>>
  /\ prev.rmwrollbackvector # <<>>
  /\ \E n \in live : edges[n] # <<>>

\* C2: edge symmetry: B is in A's forward list iff A is in B's back list,
\* and each forward edge has exactly one back-edge entry.
C2_EdgeSymmetry ==
  \A A \in NodeIds, B \in NodeIds :
     /\ Count(edges[A], B) = Count(back_edges[B], A)
     /\ Count(edges[A], B) <= 1

\* a merge has moved edges and a rollback has popped edges after it
C2_Witness ==
  /\ AfterTxnRollback
  /\ txnMerged
  /\ prev.rollbackvector # <<>>
  /\ \E n \in live : edges[n] # <<>>

\* C3: has_cycles is false iff no node reaches itself along forward and
\* rmw_successor edges.  Stated here is the half the claim singles out:
\* has_cycles is never false while the graph contains a cycle.
C3_NoCycleWhileFlagClear == ~hasCycles => ~HasCycle(Cur)

\* C4: once a node has an rmw_successor no call changes it; only the
\* rollback of the transaction that set it clears it.
C4_RMWSetOnce ==
  \A n \in NodeIds :
     prev.hasRMW[n] # NULL =>
        \/ hasRMW[n] = prev.hasRMW[n]
        \/ /\ last.op = "rollbackChanges"
           /\ hasRMW[n] = NULL
           /\ InSeq(n, prev.rmwrollbackvector)

\* add_rmw_edge(N, R2) was called on a node N that had rmw_successor R # R2
C4_Witness ==
  /\ last.op = "addRMWEdge"
  /\ prev.hasRMW[last.a] # NULL
  /\ prev.hasRMW[last.a] # last.b

\* C5: a rollback right after a commit changes nothing.
C5_CommitFinality ==
  (last.op = "rollbackChanges" /\ last.after = "commitChanges") =>
     Restorable(Cur) = Restorable(prev)

\* rollback right after the commit of a transaction with edges and an RMW
C5_Witness ==
  /\ last.op = "rollbackChanges"
  /\ last.after = "commitChanges"
  /\ \E n \in live : edges[n] # <<>>
  /\ \E n \in live : hasRMW[n] # NULL

\* C6: after the rollback of a transaction has_cycles is what it was at
\* begin_txn.
C6_RollbackRestoresFlag == AfterTxnRollback => hasCycles = snap.hasCycles

\* the flag was raised in the transaction and the rollback lowered it
C6_Witness == AfterTxnRollback /\ prev.hasCycles /\ ~hasCycles

\* C7: after a successful merge(w, p), what reached p reaches w and what p
\* reached is reached from w.
C7_MergePreservesReach ==
  (last.op = "merge" /\ last.ret) =>
     \A n \in live :
        /\ Reaches(prev, n, last.b) => Reaches(Cur, n, last.a)
        /\ Reaches(prev, last.b, n) => Reaches(Cur, last.a, n)

\* a successful merge of a promise node that had a neighbour other than w
C7_Witness ==
  /\ last.op = "merge"
  /\ last.ret
  /\ \E n \in live \ {last.a} :
        Reaches(prev, n, last.b) \/ Reaches(prev, last.b, n)

C9_RMWAtomicEdges ==
  \A n \in live :
     hasRMW[n] # NULL =>
        \A i \in 1..Len(edges[n]) :
           edges[n][i] # hasRMW[n] => InSeq(edges[n][i], edges[hasRMW[n]])

C11_SecondRMWRejected ==
  (/\ last.op = "addRMWEdge"
   /\ last.a \in prev.live
   /\ prev.hasRMW[last.a] # NULL) =>
     /\ hasCycles
     /\ hasRMW[last.a] = prev.hasRMW[last.a]

\* a second, different RMW on a write of a graph that had no cycle
C11_Witness ==
  /\ last.op = "addRMWEdge"
  /\ last.a \in prev.live
  /\ prev.hasRMW[last.a] # NULL
  /\ prev.hasRMW[last.a] # last.b
  /\ ~prev.hasCycles
  /\ hasCycles

\* Forward successors of node n in state s
EdgeSet(s, n) == {s.edges[n][i] : i \in 1..Len(s.edges[n])}

\* C12: after add_rmw_edge(from, rmw) on a node from without rmw_successor,
\* from's rmw_successor is rmw, from->rmw is a forward edge and every
\* former forward successor of from other than rmw is a successor of rmw.
C12_EdgeMigration ==
  (/\ last.op = "addRMWEdge"
   /\ last.a \in prev.live => prev.hasRMW[last.a] = NULL) =>
     /\ hasRMW[last.a] = last.b
     /\ last.b \in EdgeSet(Cur, last.a)
     /\ last.a \in prev.live =>
           EdgeSet(prev, last.a) \ {last.b} \subseteq EdgeSet(Cur, last.b)

\* the write had a successor other than the RMW, which the RMW lacked
C12_Witness ==
  /\ last.op = "addRMWEdge"
  /\ last.a \in prev.live
  /\ prev.hasRMW[last.a] = NULL
  /\ last.b \in prev.live
  /\ \E X \in EdgeSet(prev, last.a) \ {last.b} :
        X \notin EdgeSet(prev, last.b)

\* C13: resolve_promise(reader, writer) with no concrete node for writer
\* turns the promise node into the node of writer: it is found under writer
\* and under no promise, its edges, back edges and rmw_successor are
\* unchanged, nothing is merged and no other node changes.
C13_InPlaceResolution ==
  last.op = "resolveInPlace" =>
     /\ last.ret
     /\ action[last.b] # NULL
     /\ prev.actionToNode[action[last.b]] = NULL
     /\ actionToNode[action[last.b]] = last.b
     /\ promise[last.b] = NULL
     /\ prev.readerToPromiseNode[prev.promise[last.b]] = last.b
     /\ \A p \in Readers : readerToPromiseNode[p] # last.b
     /\ \A p \in Readers \ {prev.promise[last.b]} :
           readerToPromiseNode[p] = prev.readerToPromiseNode[p]
     /\ \A a \in Actions \ {action[last.b]} :
           actionToNode[a] = prev.actionToNode[a]
     /\ \A n \in NodeIds \ {last.b} :
           action[n] = prev.action[n] /\ promise[n] = prev.promise[n]
     /\ edges = prev.edges
     /\ back_edges = prev.back_edges
     /\ hasRMW = prev.hasRMW
     /\ live = prev.live
     /\ freed = prev.freed
     /\ mustMerge = <<>>
     /\ hasCycles = prev.hasCycles
     /\ rollbackvector = prev.rollbackvector
     /\ rmwrollbackvector = prev.rmwrollbackvector

\* a promise node with a predecessor and a successor was converted
C13_Witness ==
  /\ last.op = "resolveInPlace"
  /\ edges[last.b] # <<>>
  /\ back_edges[last.b] # <<>>
  /\ Cardinality(live) >= 2

Incompatible(s, w_node, p_node) ==
  ~is_compatible(s.promise[p_node], s.action[w_node])

\* C15: merge(w_node, p_node) with an incompatible promise returns failure,
\* raises has_cycles and changes no edge, no rmw_successor and no node;
\* p_node stays registered and must_merge stays empty.
C15_IncompatibleMergeRejected ==
  (last.op = "merge" /\ Incompatible(prev, last.a, last.b)) =>
     /\ ~last.ret
     /\ hasCycles
     /\ edges = prev.edges
     /\ back_edges = prev.back_edges
     /\ hasRMW = prev.hasRMW
     /\ live = prev.live
     /\ freed = prev.freed
     /\ action = prev.action
     /\ promise = prev.promise
     /\ actionToNode = prev.actionToNode
     /\ readerToPromiseNode = prev.readerToPromiseNode
     /\ mustMerge = <<>>
     /\ rollbackvector = prev.rollbackvector
     /\ rmwrollbackvector = prev.rmwrollbackvector

\* an incompatible promise node with edges, in a graph without cycle flag
C15_Witness ==
  /\ last.op = "merge"
  /\ Incompatible(prev, last.a, last.b)
  /\ ~prev.hasCycles
  /\ prev.edges[last.b] # <<>> \/ prev.back_edges[last.b] # <<>>

C17_MergeConsumesOnce == ~uaf

\* C18 (as stated): check_reachable(from, to) is true iff to is reachable
\* from from by zero or more forward or rmw_successor edges.
C18_ReachableForwardOrRMW ==
  \A a \in live, b \in live :
     checkReachable(Cur, a, b) <=> Reaches(Cur, a, b)

\* C18 (amended): check_reachable(from, to) is true iff to is reachable from
\* from by zero or more forward edges, on graphs with cycles too.
C18_ReachableForward ==
  \A a \in live, b \in live :
     checkReachable(Cur, a, b) <=> ReachesByEdges(Cur, a, b)

\* a graph with a cycle of two nodes, a path of two edges that is no single
\* edge, and a node the cycle does not reach
C18_Witness ==
  \E a \in live, b \in live, c \in live :
     /\ a # b /\ a # c /\ b # c
     /\ InSeq(b, edges[a])
     /\ InSeq(a, edges[b])
     /\ InSeq(a, edges[c])
     /\ ~InSeq(b, edges[c])
     /\ checkReachable(Cur, c, b)
     /\ ~checkReachable(Cur, a, c)

\* nodes of a visit sequence, and the threads of its concrete nodes
VisitedSet(v) == {v[i] : i \in 1..Len(v)}
VisitedTids(s, v) ==
  {get_tid(s.action[n]) : n \in {m \in VisitedSet(v) : ~is_promise(s, m)}}
AfterCheck == last.op = "checkPromise"

\* C19 (as stated): checkPromise visits exactly the nodes reachable from the
\* node of fromact, eliminates the thread of every concrete node visited,
\* returns true iff the promise is left without a thread, and leaves the
\* graph alone
C19_CheckVisitsAllReachable ==
  AfterCheck =>
    /\ VisitedSet(visited) = ForwardClosure(Cur, {last.a})
    /\ available[last.p] = last.avail \ VisitedTids(Cur, visited)
    /\ last.ret <=> available[last.p] = {}
    /\ Cur = prev

\* C19 (amended): checkPromise visits nodes reachable from the node of
\* fromact by forward edges, each once, and eliminates the thread of every
\* concrete node visited; it stops and returns true at the first concrete
\* node whose elimination leaves the promise without a thread, and
\* otherwise visits every reachable node and returns false; the graph is
\* left alone
C19_CheckStopsAtFailure ==
  AfterCheck =>
    /\ VisitedSet(visited) \subseteq ForwardClosure(Cur, {last.a})
    /\ Cardinality(VisitedSet(visited)) = Len(visited)
    /\ visited[1] = last.a
    /\ available[last.p] = last.avail \ VisitedTids(Cur, visited)
    /\ last.ret <=> available[last.p] = {}
    /\ ~last.ret => VisitedSet(visited) = ForwardClosure(Cur, {last.a})
    /\ last.ret =>
         /\ ~is_promise(Cur, Back(visited))
         /\ last.avail \ VisitedTids(Cur, Front(visited)) # {}
    /\ Cur = prev

\* C19 witness: a check that failed before it reached every node, after
\* passing through a promise node
C19_Witness ==
  /\ AfterCheck
  /\ last.ret
  /\ \E n \in VisitedSet(visited) : is_promise(Cur, n)
  /\ VisitedSet(visited) # ForwardClosure(Cur, {last.a})

\* Predicates below the entry of the tree that have no children
TreeNodes(f) == {n \in 1..NumPredicates(f) : f.parent[n] # NULL}
ChildlessNodes(f) == {n \in TreeNodes(f) : f.children[n] = <<>>}

\* C20: after every FuncNode operation, predicate_leaves is exactly the
\* set of the predicates of the tree (below its entry) that have no
\* children
C20_LeafSet == fn.predicate_leaves = ChildlessNodes(fn)

\* The calls of amend_predicate_expr that amended, and the calls of
\* generate_predicates, in the last update_tree
LogCalls(op) == {i \in 1..Len(fn.log) : fn.log[i].op = op}

\* The last handler call was a read of NULL by a thread whose tree position
\* has, for the instruction of the read, a child without expressions, and
\* the instruction is not single-location
C21_Case ==
  /\ flast.op = "update"
  /\ act_is_read(flast.act)
  /\ flast.act.value = NULL
  /\ ~is_single_location(fn, flast.act.position)
  /\ LET curr == Back(flast.before.thrd_predicate_tree_position[flast.tid])
         children == flast.before.children[curr]
     IN  \E i \in 1..Len(children) :
           /\ flast.before.func_inst[children[i]] = flast.act.position
           /\ flast.before.pred_expressions[children[i]] = {}

\* What the amendment does to the children of the position: the child
\* without expressions gets NULLITY = false, and one new predicate for the
\* same instruction, with NULLITY = true, becomes the last child
C21_Split(e) ==
  LET new_pred == e.before.num + 1
  IN  /\ e.before.pred_expressions[e.unset_pred] = {}
      /\ fn.pred_expressions[e.unset_pred] =
           {[token |-> "NULLITY", func_inst |-> NULL, value |-> FALSE]}
      /\ NumPredicates(fn) = new_pred
      /\ fn.children[e.curr_pred] = Append(e.before.children, new_pred)
      /\ fn.parent[new_pred] = e.curr_pred
      /\ fn.parent[e.unset_pred] = e.curr_pred
      /\ fn.func_inst[new_pred] = e.next_inst
      /\ fn.pred_expressions[new_pred] =
           {[token |-> "NULLITY", func_inst |-> NULL, value |-> TRUE]}
      /\ \A n \in 1..e.before.num :
           n # e.unset_pred =>
             fn.pred_expressions[n] = e.before.pred_expressions[n]

\* C21: a read of NULL by a non-single-location instruction, at a position
\* whose child for the instruction has no expressions, amends the tree: the
\* child gets NULLITY = false, one new sibling with NULLITY = true is made
\* under the same parent, and predicate_leaves grows by exactly one
C21_AmendGrowsLeaves ==
  C21_Case =>
    /\ Len(fn.log) = 1
    /\ fn.log[1].op = "amend"
    /\ C21_Split(fn.log[1])
    /\ Cardinality(fn.predicate_leaves) =
         Cardinality(fn.log[1].before.predicate_leaves) + 1

\* C21, what the code does: the same amendment, with predicate_leaves left
\* as it was
C21_AmendSplitsChild ==
  C21_Case =>
    /\ Len(fn.log) = 1
    /\ fn.log[1].op = "amend"
    /\ C21_Split(fn.log[1])
    /\ fn.predicate_leaves = fn.log[1].before.predicate_leaves

C21_Witness == C21_Case /\ LogCalls("amend") = {1}

\* The children of a predicate that were built for an instruction and have
\* no predicate expression
UnsetChildren(f, P, I) ==
  {i \in 1..Len(f.children[P]) :
     /\ f.func_inst[f.children[P][i]] = I
     /\ f.pred_expressions[f.children[P][i]] = {}}

\* C22: in every reachable predicate tree every predicate has, for every
\* instruction, at most one child without predicate expressions, and the
\* ASSERT of follow_branch on a second such child never fails
C22_OneUnsetChild ==
  /\ \A P \in 1..NumPredicates(fn) : \A I \in Positions :
       Cardinality(UnsetChildren(fn, P, I)) <= 1
  /\ ~fn.assert_unset

\* a thread has just followed, for the second time at least, the child
\* without expressions that follow_branch reported for its instruction
C22_Witness ==
  /\ flast.op = "update"
  /\ act_is_read(flast.act)
  /\ fn.log = <<>>
  /\ LET pred == Back(fn.thrd_predicate_tree_position[flast.tid])
     IN  /\ fn.pred_expressions[pred] = {}
         /\ fn.expl_count[pred] >= 2
         /\ UnsetChildren(fn, fn.parent[pred], flast.act.position) # {}

\* What a predicate expression says of a runtime state: the value of the
\* read and the last values read by the instructions (follow_branch, the
\* switch)
RuntimeStates == [value : Values, last_read : [Positions -> Values]]
ExprHolds(e, rs) ==
  IF e.token = "NOPREDICATE" THEN TRUE
  ELSE IF e.token = "EQUALITY"
  THEN (rs.last_read[e.func_inst] = rs.value) = e.value
  ELSE (rs.value = NULL) = e.value

\* The pairs of distinct children of a predicate that were built for the
\* same instruction and both have predicate expressions
SiblingPairs(f) ==
  {pq \in (1..NumPredicates(f)) \X (1..NumPredicates(f)) :
     /\ pq[1] < pq[2]
     /\ f.parent[pq[1]] # NULL
     /\ f.parent[pq[1]] = f.parent[pq[2]]
     /\ f.func_inst[pq[1]] = f.func_inst[pq[2]]
     /\ f.pred_expressions[pq[1]] # {}
     /\ f.pred_expressions[pq[2]] # {}}

\* C23: in every reachable predicate tree, no runtime state satisfies all
\* predicate expressions of two distinct children of a predicate that share
\* the instruction and both have expressions
C23_BranchesDisjoint ==
  \A pq \in SiblingPairs(fn) :
    ~ \E rs \in RuntimeStates :
        \A e \in fn.pred_expressions[pq[1]] \cup fn.pred_expressions[pq[2]] :
          ExprHolds(e, rs)

\* a thread has just followed one of four children built for one
\* instruction from two half expressions
C23_Witness ==
  /\ flast.op = "update"
  /\ LET pred == Back(fn.thrd_predicate_tree_position[flast.tid])
     IN  /\ Cardinality(fn.pred_expressions[pred]) = 2
         /\ Cardinality({pq \in SiblingPairs(fn) : pred \in {pq[1], pq[2]}})
              = 3

\* The expression sets that the sign vectors give to k half expressions
SignVectorSets(halves) ==
  {{HalfExpr(halves[i], sv[i]) : i \in 1..Len(halves)} :
     sv \in [1..Len(halves) -> BOOLEAN]}

\* The effect of the call of generate_predicates that the log entry e
\* records, with n new children
C24_Attached(e, n) ==
  LET old == Len(e.before.children)
      new == (e.before.num + 1)..(e.before.num + n)
  IN  /\ NumPredicates(fn) = e.before.num + n
      /\ Len(fn.children[e.curr_pred]) = old + n
      /\ SubSeq(fn.children[e.curr_pred], 1, old) = e.before.children
      /\ {fn.children[e.curr_pred][i] : i \in (old + 1)..(old + n)} = new
      /\ \A c \in new : /\ fn.parent[c] = e.curr_pred
                        /\ fn.func_inst[c] = e.next_inst
                        /\ fn.children[c] = <<>>
      /\ fn.predicate_leaves =
           (e.before.predicate_leaves \ {e.curr_pred}) \cup new
      /\ e.curr_pred \notin fn.predicate_leaves

\* C24: generate_predicates called with k >= 1 half expressions attaches
\* exactly 2^k new children to curr, one for each assignment of true /
\* false to the half expressions, each carrying all k expressions; called
\* with none it attaches exactly one child; in both cases curr leaves
\* predicate_leaves and every new child enters it
C24_FanOut ==
  \A j \in LogCalls("generate") :
    LET e == fn.log[j]
        k == Len(e.halves)
        new == (e.before.num + 1)..NumPredicates(fn)
    IN  IF k = 0 THEN C24_Attached(e, 1)
        ELSE /\ C24_Attached(e, 2 ^ k)
             /\ {fn.pred_expressions[c] : c \in new} = SignVectorSets(e.halves)
             /\ Cardinality(SignVectorSets(e.halves)) = 2 ^ k
             /\ \A c \in new : Cardinality(fn.pred_expressions[c]) = k

\* generate_predicates was just called with two half expressions
C24_Witness ==
  \E j \in LogCalls("generate") : Len(fn.log[j].halves) = 2

C26_Case == flast.op = "update" /\ act_is_write(flast.act)

\* What update_tree on a write leaves as it was: the position stacks and
\* the predicate traces of the threads, the exploration counters, and the
\* predicates with their links, expressions and leaves
C26_Frame ==
  /\ fn.thrd_predicate_tree_position =
       flast.before.thrd_predicate_tree_position
  /\ fn.thrd_predicate_trace = flast.before.thrd_predicate_trace
  /\ fn.expl_count = flast.before.expl_count
  /\ fn.inst_counter = flast.before.inst_counter
  /\ fn.func_inst = flast.before.func_inst
  /\ fn.children = flast.before.children
  /\ fn.parent = flast.before.parent
  /\ fn.pred_expressions = flast.before.pred_expressions
  /\ fn.exit = flast.before.exit
  /\ fn.backedges = flast.before.backedges
  /\ fn.predicate_leaves = flast.before.predicate_leaves
  /\ fn.write_locations =
       flast.before.write_locations \cup {flast.act.location}

\* C26: update_tree on a write action adds the location to write_locations,
\* notifies ModelHistory at most once per location, and returns without
\* changing the position of the thread in the predicate tree, the predicate
\* trace, the exploration counters or the set of predicates
C26_WriteNotifiesOncePerLocation ==
  C26_Case =>
    /\ C26_Frame
    /\ \A l \in Locs : fn.loc_wr_func_nodes[l] <= 1

\* C26, what the code does: the same, with ModelHistory notified exactly
\* when the location is not yet in write_locations, which is at most once
\* per location in each execution
C26_WriteNotifiesOncePerExecution ==
  C26_Case =>
    /\ C26_Frame
    /\ \A l \in Locs :
         /\ fn.loc_wr_func_nodes[l] =
              flast.before.loc_wr_func_nodes[l] +
                (IF /\ l = flast.act.location
                    /\ l \notin flast.before.write_locations
                 THEN 1 ELSE 0)
         /\ fn.loc_wr_func_nodes[l] <= fn.execution_number

\* a thread below the entry of the tree has just written a location that
\* was written before in this execution
C26_Witness ==
  /\ C26_Case
  /\ flast.act.location \in flast.before.write_locations
  /\ Back(fn.thrd_predicate_tree_position[flast.tid]) # predicate_tree_entry

\* C27: function entry for thread t pushes the entry node of the tree as
\* the current position of t and function exit pops it, so after an exit
\* the position stack of t, and with it the current position of t, is the
\* one t had just before the matching entry, also for nested calls of the
\* function on the same thread; entries and exits of one thread never
\* change the stack of another thread
C27_PerThreadStacks ==
  /\ flast.op = "entry" =>
       fn.thrd_predicate_tree_position[flast.tid] =
         Append(flast.before.thrd_predicate_tree_position[flast.tid],
                predicate_tree_entry)
  /\ flast.op = "exit" =>
       /\ fn.thrd_predicate_tree_position[flast.tid] =
            Front(flast.before.thrd_predicate_tree_position[flast.tid])
       /\ fn.thrd_predicate_tree_position[flast.tid] = flast.matched
  /\ flast.op \in {"entry", "exit"} =>
       \A t \in Threads \ {flast.tid} :
         fn.thrd_predicate_tree_position[t] =
           flast.before.thrd_predicate_tree_position[t]
  /\ \A t \in Threads :
       Len(flast.entered[t]) = Len(fn.thrd_predicate_tree_position[t])

\* a thread has just left a nested call in which it moved in the tree, and
\* is back at the position below the entry that it had in the outer call,
\* while another thread is inside the function
C27_Witness ==
  /\ flast.op = "exit"
  /\ Len(fn.thrd_predicate_tree_position[flast.tid]) = 1
  /\ Back(fn.thrd_predicate_tree_position[flast.tid]) # predicate_tree_entry
  /\ Back(flast.before.thrd_predicate_tree_position[flast.tid])
       \notin {predicate_tree_entry,
               Back(fn.thrd_predicate_tree_position[flast.tid])}
  /\ \E t \in Threads \ {flast.tid} :
       fn.thrd_predicate_tree_position[t] # <<>>

\* ---------------------------------------------------------------- C28
\* The call of next_execution that has just ended an execution
C28_Case == mc.out.op = "next_execution"

\* C28: bugs are reported only for feasible executions: at the end of an
\* execution the bug list is printed only if the execution is a feasible
\* prefix and is complete or has bug reports; for an execution that is
\* infeasible or not a feasible prefix no bug is printed at any verbosity
C28_BugsOnlyForFeasible ==
  C28_Case =>
    /\ mc.out.bugs_printed =>
         /\ mc.out.printed
         /\ mc.out.before.feasibleprefix
         /\ ~mc.out.before.infeasible
         /\ mc.out.before.complete \/ mc.out.before.bugs > 0
    /\ mc.out.before.infeasible => ~mc.out.bugs_printed
    /\ ~mc.out.before.feasibleprefix => ~mc.out.bugs_printed

\* An infeasible execution with bug reports has ended at the highest
\* verbosity: the execution was printed, its bugs were not
C28_Witness ==
  /\ C28_Case
  /\ mc.params.verbose = MaxVerbose
  /\ mc.out.before.infeasible
  /\ mc.out.before.bugs > 0
  /\ mc.out.printed
  /\ ~mc.out.bugs_printed

\* ---------------------------------------------------------------- C29
\* C29: user bugs do not stop the checker: always, after a step that
\* leaves a feasible prefix with a fatal bug report the execution is marked
\* asserted and the step loop has ended with next_execution to come, and
\* the next_execution after an asserted execution leaves the driver in the
\* step loop of the following, fresh execution, or, when that was the last
\* of the maxexecutions executions, after the for loop; and an asserted
\* execution is always followed by such a next_execution
C29_FatalBugEndsExecutionOnly ==
  /\ [](/\ /\ mc.out.op = "step"
           /\ mc.out.took_step
           /\ mc.execution.feasibleprefix
           /\ mc.execution.fatal
           => /\ mc.execution.asserted
              /\ mc.pc = "next"
              /\ mc.exec = mc.out.exec
        /\ mc.execution.asserted => mc.pc = "next"
        /\ /\ mc.out.op = "next_execution"
           /\ mc.out.before.asserted
           => /\ mc.exec = mc.out.exec + 1
              /\ mc.execution = ModelExecution_new
              /\ mc.pc = IF mc.exec < mc.params.maxexecutions
                         THEN "loop" ELSE "finished")
  /\ mc.execution.asserted
       ~> /\ mc.out.op = "next_execution"
          /\ mc.out.before.asserted
          /\ mc.pc \in {"loop", "finished"}

\* An execution ended by a fatal bug was followed by next_execution, and
\* the driver is in the step loop of the following execution
C29_Witness ==
  /\ mc.out.op = "next_execution"
  /\ mc.out.before.asserted
  /\ mc.out.before.fatal
  /\ mc.out.before.feasibleprefix
  /\ mc.pc = "loop"
  /\ mc.exec = mc.out.exec + 1

C31_Case ==
  /\ last.op = "addRMWEdge"
  /\ last.a \in prev.live
  /\ prev.hasRMW[last.a] # NULL

\* Number of forward edges of all nodes in state s
RECURSIVE SumEdges(_, _)
SumEdges(s, n) ==
  IF n = 0 THEN 0 ELSE Len(s.edges[n]) + SumEdges(s, n - 1)

\* C31 as stated: a rejected add_rmw_edge only raises has_cycles; every
\* node's forward and back edge lists are the same as before the call
C31_RejectedRMWNoWork ==
  C31_Case =>
    /\ hasCycles
    /\ hasRMW[last.a] = prev.hasRMW[last.a]
    /\ edges = prev.edges
    /\ back_edges = prev.back_edges

\* C31: a rejected add_rmw_edge raises has_cycles, leaves from's
\* rmw_successor and the log of rmw_successors alone, and still does the
\* work on the edges: afterwards from->rmw is a forward edge and every
\* former forward successor of from other than rmw is a successor of rmw;
\* edges are only appended, and every appended edge is in the edge log
C31_RejectedRMWStillAddsEdges ==
  C31_Case =>
    /\ hasCycles
    /\ hasRMW[last.a] = prev.hasRMW[last.a]
    /\ rmwrollbackvector = prev.rmwrollbackvector
    /\ last.b \in EdgeSet(Cur, last.a)
    /\ EdgeSet(prev, last.a) \ {last.b} \subseteq EdgeSet(Cur, last.b)
    /\ \A n \in NodeIds :
         /\ Len(prev.edges[n]) <= Len(edges[n])
         /\ SubSeq(edges[n], 1, Len(prev.edges[n])) = prev.edges[n]
    /\ SubSeq(rollbackvector, 1, Len(prev.rollbackvector))
         = prev.rollbackvector
    /\ Len(rollbackvector) - Len(prev.rollbackvector)
         = SumEdges(Cur, MaxNodes) - SumEdges(prev, MaxNodes)

\* A rejected add_rmw_edge added the edge from->rmw and copied a successor
\* of from to rmw
C31_Witness ==
  /\ C31_Case
  /\ prev.hasRMW[last.a] # last.b
  /\ last.b \notin EdgeSet(prev, last.a)
  /\ last.b \in EdgeSet(Cur, last.a)
  /\ \E X \in EdgeSet(prev, last.a) \ {last.b} :
        X \notin EdgeSet(prev, last.b) /\ X \in EdgeSet(Cur, last.b)

\* ---------------------------------------------------------------- C32
\* C32: after the rollback of a transaction of add_edge and add_rmw_edge
\* calls every node has exactly the ordered forward-edge list and the
\* rmw_successor it had at begin_txn (a node created in the transaction
\* has no edge and no rmw_successor), in whatever order the nodes received
\* their edges and however many edges one node received
C32_RollbackRestoresLists ==
  AfterTxnRollback =>
    \A n \in NodeIds :
      /\ edges[n] = snap.edges[n]
      /\ hasRMW[n] = snap.hasRMW[n]

\* The rollback undid a transaction in which one node received two edges
\* or more, another node received an edge after it, and an rmw_successor
\* was set
C32_Witness ==
  /\ AfterTxnRollback
  /\ prev.rmwrollbackvector # <<>>
  /\ \E n \in NodeIds, m \in NodeIds :
       /\ n # m
       /\ Len(prev.edges[n]) >= Len(snap.edges[n]) + 2
       /\ Len(prev.edges[m]) > Len(snap.edges[m])
       /\ \E i \in 1..Len(prev.rollbackvector) :
          \E j \in 1..Len(prev.rollbackvector) :
          \E k \in 1..Len(prev.rollbackvector) :
            /\ i < j /\ j < k
            /\ prev.rollbackvector[i] = n
            /\ prev.rollbackvector[j] = m
            /\ prev.rollbackvector[k] = n

C34_CleanBetweenTransactions ==
  /\ last.op \in {"commitChanges", "rollbackChanges"} =>
       /\ rollbackvector = <<>>
       /\ rmwrollbackvector = <<>>
       /\ oldCycles = hasCycles
  /\ ~inTxn => startChanges_asserts(Cur)

\* A transaction that logged edges and an rmw_successor and raised the
\* cycle flag has just been rolled back
C34_Witness ==
  /\ last.op = "rollbackChanges"
  /\ last.ret
  /\ ~inTxn
  /\ prev.rollbackvector # <<>>
  /\ prev.rmwrollbackvector # <<>>
  /\ prev.hasCycles
  /\ ~prev.oldCycles

\* ---------------------------------------------------------------- C35
\* C35: an rmw_successor is always also a forward edge: if node N has
\* rmw_successor R then R is in N's forward-edge list, so the nodes
\* reachable from any node by forward edges alone are the nodes reachable
\* by forward and rmw_successor edges
C35_RMWIsForwardEdge ==
  /\ \A n \in live :
       hasRMW[n] # NULL => InSeq(hasRMW[n], edges[n])
  /\ \A n \in live :
       ForwardClosure(Cur, {n}) = Closure(Cur, {n})

\* A rollback has popped edges of a node that keeps the rmw_successor it
\* got in an earlier, committed transaction
C35_Witness ==
  /\ AfterTxnRollback
  /\ \E n \in live :
       /\ hasRMW[n] # NULL
       /\ hasRMW[n] # n
       /\ InSeq(n, prev.rollbackvector)
       /\ Len(prev.edges[n]) > Len(edges[n])

\* ---------------------------------------------------------------- C36
\* add_rmw_edge(B, R) was called on a node B without rmw_successor while
\* R was the rmw_successor of another node A
C36_Case ==
  /\ last.op = "addRMWEdge"
  /\ last.a \in prev.live => prev.hasRMW[last.a] = NULL
  /\ \E a \in prev.live : a # last.a /\ prev.hasRMW[a] = last.b

\* C36 as stated: an RMW reads from one write only: while has_cycles is
\* not raised no node is the rmw_successor of two different nodes, and
\* add_rmw_edge(B, R) on an RMW R that is the rmw_successor of another
\* node raises has_cycles
C36_OneWritePerRMW ==
  /\ ~hasCycles =>
       \A a \in live, b \in live :
         (a # b /\ hasRMW[a] # NULL) => hasRMW[a] # hasRMW[b]
  /\ C36_Case => hasCycles

\* C36: the graph does not keep an RMW from reading from two writes:
\* add_rmw_edge(B, R) on a node B without rmw_successor makes R the
\* rmw_successor of B also when R is the rmw_successor of another node A,
\* which keeps it, and the call raises has_cycles only if the graph then
\* has a cycle
C36_SecondWriteAccepted ==
  C36_Case =>
    /\ hasRMW[last.a] = last.b
    /\ \A a \in prev.live : prev.hasRMW[a] = last.b => hasRMW[a] = last.b
    /\ InSeq(last.a, rmwrollbackvector)
    /\ (hasCycles /\ ~prev.hasCycles) => HasCycle(Cur)

\* R is the rmw_successor of two different nodes and has_cycles is not
\* raised
C36_Witness ==
  /\ C36_Case
  /\ ~hasCycles
  /\ \E a \in live :
       a # last.a /\ hasRMW[a] = last.b /\ hasRMW[last.a] = last.b

\* ---------------------------------------------------------------- C37
\* The FuncNode that update_tree hands to update_predicate_tree for the
\* read act
C37_Start(f, act) ==
  LET f0 == add_inst([f EXCEPT !.log = <<>>], act)
  IN  IF /\ act.location \notin f0.read_locations
         /\ is_single_location(f0, act.position)
      THEN add_to_val_loc_map(
             [f0 EXCEPT !.read_locations = @ \cup {act.location}],
             f0.write_history[act.location], act.location)
      ELSE f0

\* The iterations of the retry loop of update_predicate_tree from curr_pred,
\* n of them done: how many there are, whether an ASSERT failed, which
\* steps were taken, and whether each follow_branch that came right after
\* generate_predicates reported a child (matching or unset) and each one
\* right after a successful amend_predicate_expr found a matching child.
\* after is the step of the iteration before.
RECURSIVE C37_Loop(_, _, _, _, _, _)
C37_Loop(f, curr_pred, act, n, after, steps) ==
  LET next_inst == act.position
      inst_id_map == f.thrd_inst_id_map[act.tid]
      f1 == set_associated_read(f, next_inst, act.tid, act.value,
                                f.thrd_marker[act.tid])
      fb == follow_branch(f1, curr_pred, next_inst, act)
      done == [iters |-> n + 1, ended |-> TRUE, asserted |-> FALSE,
               refound |-> TRUE, steps |-> steps]
  IN  IF n >= MaxTreeIters THEN [done EXCEPT !.ended = FALSE]
      ELSE IF fb.assert # "none" THEN [done EXCEPT !.asserted = TRUE]
      ELSE IF after = "amend" /\ ~fb.found
      THEN [done EXCEPT !.refound = FALSE]
      ELSE IF after = "generate" /\ ~fb.found /\ fb.unset_predicate = NULL
      THEN [done EXCEPT !.refound = FALSE]
      ELSE IF fb.found THEN done
      ELSE IF fb.unset_predicate # NULL
      THEN LET am == amend_predicate_expr(f1, curr_pred, next_inst, act)
           IN  IF am.ret
               THEN C37_Loop(am.f, curr_pred, act, n + 1, "amend",
                             steps \cup {"amend"})
               ELSE [done EXCEPT !.steps = steps \cup {"unset"}]
      ELSE IF /\ inst_id_map[next_inst] # 0
              /\ inst_id(inst_id_map, f1.func_inst[curr_pred])
                   >= inst_id_map[next_inst]
      THEN C37_Loop(f1, f1.parent[f1.thrd_inst_pred_map[act.tid][next_inst]],
                    act, n + 1, "jump", steps \cup {"jump"})
      ELSE C37_Loop(generate_predicates(f1, curr_pred, next_inst,
                                        infer_predicates(f1, next_inst, act),
                                        act_is_write(act)),
                    curr_pred, act, n + 1, "generate",
                    steps \cup {"generate"})

\* the retry loop of the last call of update_predicate_tree
C37_Last ==
  C37_Loop(C37_Start(flast.before, flast.act),
           Back(flast.before.thrd_predicate_tree_position[flast.tid]),
           flast.act, 0, "none", {})

\* update_predicate_tree was called for a read action
C37_Case == flast.op = "update" /\ act_is_read(flast.act)

\* the thread is positioned on a child whose FuncInst is the instruction
\* of the action
C37_Positioned ==
  LET pos == Back(fn.thrd_predicate_tree_position[flast.tid])
  IN  /\ fn.func_inst[pos] = flast.act.position
      /\ fn.parent[pos] # NULL
      /\ InSeq(pos, fn.children[fn.parent[pos]])

C38_ShareValue(l1, l2) ==
  \E v \in Values : l1 \in fn.val_loc_map[v] /\ l2 \in fn.val_loc_map[v]

\* C38: within one execution the may-equal neighbour relation is symmetric
\* and irreflexive, and two distinct locations are neighbours if and only
\* if some value has both of them in its val_loc_map location set
C38_MayEqualRelation ==
  \A l1 \in Locs :
    /\ l1 \notin fn.loc_may_equal_map[l1]
    /\ \A l2 \in Locs :
         /\ l2 \in fn.loc_may_equal_map[l1] => l1 \in fn.loc_may_equal_map[l2]
         /\ l1 # l2 =>
              (l2 \in fn.loc_may_equal_map[l1] <=> C38_ShareValue(l1, l2))

\* three locations were given to add_to_val_loc_map in this execution: two
\* of them share a value and are neighbours, the third one has values of
\* its own and is a neighbour of neither
C38_Witness ==
  \E l1 \in Locs, l2 \in Locs, l3 \in Locs :
    /\ l1 # l2 /\ l1 # l3 /\ l2 # l3
    /\ C38_ShareValue(l1, l2)
    /\ l2 \in fn.loc_may_equal_map[l1]
    /\ \E v \in Values : l3 \in fn.val_loc_map[v]
    /\ fn.loc_may_equal_map[l3] = {}
    /\ {l1, l2, l3} \subseteq fn.read_locations

\* ---------------------------------------------------------------- C39
\* the counter that record_stats increments besides num_total for the
\* execution ex: infeasible before buggy, buggy before complete, complete
\* before redundant
C39_Counter(ex) ==
  IF ~ex.feasibleprefix THEN "num_infeasible"
  ELSE IF ex.bugs > 0 THEN "num_buggy_executions"
  ELSE IF ex.complete THEN "num_complete"
  ELSE "num_redundant"

\* the execution as record_stats finds it: next_execution has added the
\* deadlock bug report to a deadlocked complete execution
C39_Recorded(ex) ==
  IF ex.feasibleprefix /\ (ex.complete \/ ex.bugs > 0) /\ ex.deadlocked
  THEN assert_bug(ex) ELSE ex

\* an execution ends: num_total and exactly the counter of the execution
\* grow by one, and a restart sets all five to 0
C39_Step ==
  mc.pc = "next" =>
    IF mc.restart_flag THEN mc'.stats = execution_stats_new
    ELSE mc'.stats =
           [mc.stats EXCEPT !.num_total = @ + 1,
                            ![C39_Counter(C39_Recorded(mc.execution))] = @ + 1]

\* the four counters add up to num_total, which is the number of executions
\* finished since the last restart
C39_Sum ==
  /\ mc.stats.num_total =
       mc.stats.num_infeasible + mc.stats.num_buggy_executions
         + mc.stats.num_complete + mc.stats.num_redundant
  /\ mc.stats.num_total = mc.execution_number - 1

\* C39: the execution statistics partition the executions: after any
\* number of finished executions since the last restart num_total is the
\* sum of num_infeasible, num_buggy_executions, num_complete and
\* num_redundant, and every finished execution increments num_total and
\* exactly one of the four, infeasible before buggy before complete before
\* redundant
C39_StatsPartition == [](C39_Sum) /\ [][C39_Step]_vars

\* two executions have finished since the last restart, which came after
\* an execution of its own: a buggy one and a redundant one are counted
C39_Witness ==
  /\ mc.out.op = "next_execution"
  /\ ~mc.out.restarted
  /\ mc.ran = 3
  /\ mc.stats.num_total = 2
  /\ mc.stats.num_buggy_executions = 1
  /\ mc.stats.num_redundant = 1

====
